---- MODULE Spec2Model ----
(***************************************************************************)
(* Screen-model layer of reovim: the redraw-event dispatcher               *)
(* (AppModel::update, src/src/app.rs), the grid object (VimGrid,           *)
(* src/src/vimview/widgets.rs) and the registry of live grids with their   *)
(* window associations.                                                    *)
(*                                                                         *)
(* A panic of the dispatcher (an unwrap/expect on a missing value, an      *)
(* unimplemented!()) ends the applier: the variable panicked records it    *)
(* and no event is applied afterwards.                                     *)
(***************************************************************************)
EXTENDS Integers, Sequences, FiniteSets, TLC

(* ------------------------------------------------------------------ *)
(* Bounds of the model.                                                *)
(* ------------------------------------------------------------------ *)
MaxGrid == 2
MaxDim == 2
MaxCoord == 1
MaxWin == 1
MaxHl == 1
MaxModes == 1
MaxSteps == 3
MaxGridSteps == 4
MaxBlockSteps == 3
MaxPaintSteps == 4
MaxScrollSteps == 5
MaxViewSteps == 4
MaxRowLen == 3
MaxItems == 2
MaxRepeat == 2
MaxRowSteps == 2
MaxNamedSteps == 4

GridIds == 1..MaxGrid
Dims == 1..MaxDim
Coords == 0..MaxCoord
WinIds == 1..MaxWin
HlIds == 0..MaxHl

\* Grid sizes (width, height) and cell places (row, column) the events carry.
Sizes == {<<w, h>> \in Dims \X Dims : w + h = MaxDim + 1}
Places == {<<r, c>> \in Coords \X Coords : r + c = MaxCoord}

(* Cell metrics in device units (crate::metrics::Metrics). *)
MetricsWidth == 8
MetricsHeight == 16

(* Option<T>: None is the empty sequence, Some(v) is <<v>>. *)
None == <<>>
Some(v) == <<v>>

(* ------------------------------------------------------------------ *)
(* Cells and the text buffer of a grid (vimview::TextBuf).             *)
(* ------------------------------------------------------------------ *)
DefaultCell == [text |-> " ", hl_id |-> 0, double_width |-> FALSE]

TextBufNew(rows, cols) ==
    [r \in 1..rows |-> [c \in 1..cols |-> DefaultCell]]

\* resize keeps the overlapping top-left area and default-fills the rest.
TextBufResize(buf, height, width) ==
    [r \in 1..height |->
        [c \in 1..width |->
            IF r <= Len(buf) /\ c <= Len(buf[r]) THEN buf[r][c] ELSE DefaultCell]]

TextBufClear(buf) ==
    [r \in 1..Len(buf) |-> [c \in 1..Len(buf[r]) |-> DefaultCell]]

\* cell(row, col) with 0-based coordinates: None when there is no such cell.
TextBufCell(buf, row, col) ==
    IF row < Len(buf) /\ col < Len(buf[row + 1])
    THEN Some(buf[row + 1][col + 1])
    ELSE None

\* One GridLineCell (text, highlight_id, repeat, double_width) is written
\* repeat.unwrap_or(1) times; the write cursor starts at the 0-based column
\* col_start and advances by the repeat of each item.
Repeation(item) == IF item.repeat = None THEN 1 ELSE item.repeat[1]

RECURSIVE TotalRepeat(_)
TotalRepeat(cells) ==
    IF cells = <<>> THEN 0 ELSE Repeation(Head(cells)) + TotalRepeat(Tail(cells))

RECURSIVE RowWrite(_, _, _)
RowWrite(rowcells, offset, cells) ==
    IF cells = <<>> THEN rowcells
    ELSE RowWrite(
            [c \in 1..Len(rowcells) |->
                IF c - 1 >= offset /\ c - 1 < offset + Repeation(Head(cells))
                THEN [text |-> Head(cells).text,
                      hl_id |-> Head(cells).highlight_id,
                      double_width |-> Head(cells).double_width]
                ELSE rowcells[c]],
            offset + Repeation(Head(cells)),
            Tail(cells))

TextBufSetCells(buf, row, col_start, cells) ==
    [r \in 1..Len(buf) |->
        IF r = row + 1 THEN RowWrite(buf[r], col_start, cells) ELSE buf[r]]

\* up(n): row i becomes what was row i+n, the last n rows become blank.
TextBufUp(buf, n) ==
    [r \in 1..Len(buf) |->
        IF r + n <= Len(buf) THEN buf[r + n]
        ELSE [c \in 1..Len(buf[r]) |-> DefaultCell]]

\* down(n): row i becomes what was row i-n, the first n rows become blank.
TextBufDown(buf, n) ==
    [r \in 1..Len(buf) |->
        IF r - n >= 1 THEN buf[r - n]
        ELSE [c \in 1..Len(buf[r]) |-> DefaultCell]]

(* ------------------------------------------------------------------ *)
(* VimGrid (src/src/vimview/widgets.rs).                               *)
(* ------------------------------------------------------------------ *)
Pos(x, y) == [x |-> x, y |-> y]

VimGridNew(winid, pos, width, height) ==
    [win |-> winid,
     pos |-> pos,
     width |-> width,
     height |-> height,
     move_to |-> None,
     is_float |-> FALSE,
     focusable |-> TRUE,
     textbuf |-> TextBufNew(height, width),
     visible |-> TRUE]

VimGridHide(vgrid) == [vgrid EXCEPT !.visible = FALSE]

VimGridShow(vgrid) == [vgrid EXCEPT !.visible = TRUE]

VimGridClear(vgrid) == [vgrid EXCEPT !.textbuf = TextBufClear(@)]

VimGridUp(vgrid, rows) == [vgrid EXCEPT !.textbuf = TextBufUp(@, rows)]

\* As VimGridDown, moving the content the way up does.
VimGridDownEatsHead(vgrid, rows) == [vgrid EXCEPT !.textbuf = TextBufUp(@, rows)]

VimGridDown(vgrid, rows) == [vgrid EXCEPT !.textbuf = TextBufDown(@, rows)]

VimGridResize(vgrid, width, height) ==
    [vgrid EXCEPT !.width = width,
                  !.height = height,
                  !.textbuf = TextBufResize(@, height, width)]

VimGridSetPos(vgrid, x, y) ==
    [vgrid EXCEPT !.pos = Pos(x, y), !.move_to = Some(Pos(x, y))]

\* As VimGridView, with the pending move read and left in place.
VimGridViewPeeks(vgrid) == vgrid

\* FactoryPrototype::view: move_to.take() hands the pending move, if any, to
\* the widget (Moved) and leaves None behind.
VimGridView(vgrid) == [vgrid EXCEPT !.move_to = None]

Moved(vgrid) == vgrid.move_to

VimGridSetIsFloat(vgrid, is_float) == [vgrid EXCEPT !.is_float = is_float]

VimGridSetFocusable(vgrid, focusable) == [vgrid EXCEPT !.focusable = focusable]

(* ------------------------------------------------------------------ *)
(* Row (src/src/elements.rs): cells is the Vec<Cell>, len the field.   *)
(* Columns are 0-based, as in the code; cells[c + 1] is column c.      *)
(* ------------------------------------------------------------------ *)
\* An operation either returns or panics (an index out of bounds, an unwrap of
\* None, a failed assert_eq!).
Panics == [done |-> FALSE]
Returns(v) == [done |-> TRUE, val |-> v]

EmptyCells(len) == [c \in 1..len |-> DefaultCell]

RowNew(len) == [cells |-> EmptyCells(len), len |-> len]

\* clear: as many default cells as the len field says.
RowClear(r) == Returns([row |-> [r EXCEPT !.cells = EmptyCells(r.len)], ret |-> None])

\* As RowResize, with every cell reset.
RowResizeBlanks(r, new_size) == Returns([row |-> RowNew(new_size), ret |-> None])

\* As RowResize, with the len field left as it was.
RowResizeKeepsLen(r, new_size) ==
    Returns([row |-> [r EXCEPT !.cells = [c \in 1..new_size |->
                                            IF c <= Len(r.cells) THEN r.cells[c]
                                            ELSE DefaultCell]],
             ret |-> None])

\* resize: Vec::resize_with on a copy of cells truncates or appends default
\* cells; len is read back from the new vector.
RowResize(r, new_size) ==
    LET n == [c \in 1..new_size |->
                 IF c <= Len(r.cells) THEN r.cells[c] ELSE DefaultCell]
    IN Returns([row |-> [cells |-> n, len |-> Len(n)], ret |-> None])

\* As RowClearRange, with the cell at column to reset as well.
RowClearRangeInclusive(r, from, to) ==
    IF from < to /\ to > Len(r.cells) THEN Panics
    ELSE Returns([row |-> [r EXCEPT !.cells =
                              [c \in 1..Len(r.cells) |->
                                  IF c - 1 >= from /\ c - 1 <= to
                                  THEN DefaultCell ELSE r.cells[c]]],
                  ret |-> None])

\* clear_range: cells[i] for i in from..to; an index past the end panics.
RowClearRange(r, from, to) ==
    IF from < to /\ to > Len(r.cells) THEN Panics
    ELSE Returns([row |-> [r EXCEPT !.cells =
                              [c \in 1..Len(r.cells) |->
                                  IF c - 1 >= from /\ c - 1 < to
                                  THEN DefaultCell ELSE r.cells[c]]],
                  ret |-> None])

\* copy_range: the slice cells[from..to], which panics when from > to or
\* to is past the end.
RowCopyRange(r, from, to) ==
    IF from > to \/ to > Len(r.cells) THEN Panics
    ELSE Returns([row |-> r, ret |-> SubSeq(r.cells, from + 1, to)])

\* insert_at: cells[at + i] for every given cell, then the assert_eq!.
RowInsertAt(r, at, cells) ==
    IF \/ cells # <<>> /\ at + Len(cells) > Len(r.cells)
       \/ Len(r.cells) # r.len
    THEN Panics
    ELSE Returns([row |-> [r EXCEPT !.cells =
                              [c \in 1..Len(r.cells) |->
                                  IF c - 1 >= at /\ c - 1 < at + Len(cells)
                                  THEN cells[c - at] ELSE r.cells[c]]],
                  ret |-> None])

\* to_segments, first half: the column after the last cell before cell_start
\* whose style differs from the style at cell_start, or 0.
SegmentBase(cells, cell_start) ==
    LET base_hl == cells[cell_start + 1].hl_id
        differ == {i \in 0..(cell_start - 1) : cells[i + 1].hl_id # base_hl}
    IN IF differ = {} THEN 0
       ELSE (CHOOSE i \in differ : \A j \in differ : j <= i) + 1

\* to_segments, second half: the loop over the cells from column i on, which
\* stops after column end; a cell joins the last segment when it has its
\* style, and opens a segment at start otherwise.
RECURSIVE Segments(_, _, _, _, _)
Segments(cells, i, start, end, segs) ==
    IF i >= Len(cells) \/ i > end THEN segs
    ELSE LET cell == cells[i + 1]
             seg == segs[Len(segs)]
         IN IF segs # <<>> /\ seg.hl_id = cell.hl_id
            THEN Segments(cells, i + 1, start + 1, end,
                          [segs EXCEPT ![Len(segs)] =
                              [text |-> seg.text \o cell.text, hl_id |-> seg.hl_id,
                               start |-> seg.start, len |-> seg.len + 1]])
            ELSE Segments(cells, i + 1, start + 1, end,
                          Append(segs, [text |-> cell.text, hl_id |-> cell.hl_id,
                                        start |-> start, len |-> 1]))

\* As RowToSegments, starting at cell_start itself.
RowToSegmentsFromStart(r, cell_start, end) ==
    IF cell_start >= Len(r.cells) THEN Panics
    ELSE Returns([row |-> r,
                  ret |-> Segments(r.cells, cell_start, cell_start, end, <<>>)])

\* As RowToSegments, with the loop stopping before column end.
RowToSegmentsExclusive(r, cell_start, end) ==
    IF cell_start >= Len(r.cells) THEN Panics
    ELSE LET base == SegmentBase(r.cells, cell_start)
         IN Returns([row |-> r, ret |-> Segments(r.cells, base, base, end - 1, <<>>)])

\* to_segments: cells[cell_start] panics past the end.
RowToSegments(r, cell_start, end) ==
    IF cell_start >= Len(r.cells) THEN Panics
    ELSE LET base == SegmentBase(r.cells, cell_start)
         IN Returns([row |-> r, ret |-> Segments(r.cells, base, base, end, <<>>)])

\* As Advance, one column per item.
AdvanceByOne(offset, cell) == offset + 1

\* replace: offset += repeation.
Advance(offset, cell) == offset + Repeation(cell)

\* replace, the write loop: each item is written repeation times from
\* offset on; highlight_id.unwrap() and cells[offset + r] can panic, and are
\* reached only when repeation > 0.
RECURSIVE WriteCells(_, _, _)
WriteCells(cells, offset, items) ==
    IF items = <<>> THEN Returns([cells |-> cells, offset |-> offset])
    ELSE LET cell == Head(items)
             repeation == Repeation(cell)
         IN IF /\ repeation > 0
               /\ \/ cell.highlight_id = None
                  \/ offset + repeation > Len(cells)
            THEN Panics
            ELSE WriteCells(
                    [c \in 1..Len(cells) |->
                        IF c - 1 >= offset /\ c - 1 < offset + repeation
                        THEN [text |-> cell.text,
                              hl_id |-> cell.highlight_id[1],
                              double_width |-> cell.double_width]
                        ELSE cells[c]],
                    Advance(offset, cell),
                    Tail(items))

\* As RowReplace, with the segments taken from col_start after the write.
RowReplaceFromColumn(r, line) ==
    LET col_start == line.column_start
        first == RowToSegments(r, col_start, col_start)
        written == WriteCells(r.cells, col_start, line.cells)
    IN IF ~first.done \/ ~written.done THEN Panics
       ELSE LET after == [r EXCEPT !.cells = written.val.cells]
                segs == RowToSegments(after, col_start, written.val.offset)
            IN IF ~segs.done THEN Panics
               ELSE Returns([row |-> after, ret |-> segs.val.ret])

\* replace: range_start is where the segment at col_start starts before the
\* write; the segments returned are those from range_start to the final
\* offset after it.
RowReplace(r, line) ==
    LET col_start == line.column_start
        first == RowToSegments(r, col_start, col_start)
    IN IF ~first.done THEN Panics
       ELSE LET range_start == IF first.val.ret # <<>>
                               THEN first.val.ret[1].start ELSE 0
                written == WriteCells(r.cells, col_start, line.cells)
            IN IF ~written.done THEN Panics
               ELSE IF Len(written.val.cells) # r.len THEN Panics
               ELSE LET after == [r EXCEPT !.cells = written.val.cells]
                        segs == RowToSegments(after, range_start, written.val.offset)
                    IN IF ~segs.done THEN Panics
                       ELSE Returns([row |-> after, ret |-> segs.val.ret])

(* ------------------------------------------------------------------ *)
(* State of AppModel.                                                  *)
(* ------------------------------------------------------------------ *)
VARIABLES
    vgrids,              \* FactoryMap<VimGrid>: grid id -> VimGrid, live ids only
    relationships,       \* FxHashMap<u64, GridWindow>: grid id -> winid
    focused,             \* AtomicU64
    background_changed,  \* dirty flags
    cursor_redraw,
    font_changed,
    cursor,              \* Cursor: position and shown cell
    cursor_mode,         \* index into cursor_modes
    cursor_modes,        \* Vec<CursorMode>
    mode,                \* EditorMode
    hldefs,              \* HighlightDefinitions
    panicked,            \* the dispatcher has panicked
    tomb,                \* history: grid id -> Some(digest of the grid last
                         \*          removed under it), None if none was removed
    last,                \* history: the event applied last and what it met
    budget,              \* number of events still to be applied
    raised,              \* history: the dirty flags set since the last paint cycle
    unflushed,           \* history: the dirty flags set since the last Flush
    placed,              \* history: the grids given a position by set_pos
                         \*          since the last render pass
    grid_row,            \* a Row (elements.rs): its cells and its len field
    queue,               \* redraw events sent to the applier, not yet taken
    waiting              \* Some(event) while update is inside rt.block_on

vars == <<vgrids, relationships, focused, background_changed, cursor_redraw,
          font_changed, cursor, cursor_mode, cursor_modes, mode, hldefs,
          panicked, tomb, last, budget, raised, unflushed, placed,
          grid_row, queue, waiting>>

\* Everything of the model a redraw event can change.
model == <<vgrids, relationships, focused, background_changed, cursor_redraw,
           font_changed, cursor, cursor_mode, cursor_modes, mode, hldefs>>

grid_vars == <<vgrids, relationships>>
flag_vars == <<background_changed, cursor_redraw, font_changed>>
cursor_vars == <<cursor, cursor_mode, cursor_modes, mode>>

\* FactoryMap / FxHashMap operations on a function whose domain is the key set.
MapInsert(m, k, v) == [i \in DOMAIN m \cup {k} |-> IF i = k THEN v ELSE m[i]]
MapRemove(m, k) == [i \in DOMAIN m \ {k} |-> m[i]]

Live(grid) == grid \in DOMAIN vgrids

\* The dirty flags that are set.
Dirty ==
    (IF background_changed THEN {"background_changed"} ELSE {})
        \cup (IF cursor_redraw THEN {"cursor_redraw"} ELSE {})
        \cup (IF font_changed THEN {"font_changed"} ELSE {})

\* AppModel::new, and the history variables before any event.
Constructed ==
    /\ vgrids = <<>>
    /\ relationships = <<>>
    /\ focused = 1
    /\ background_changed = FALSE
    /\ cursor_redraw = FALSE
    /\ font_changed = FALSE
    /\ cursor = [pos |-> Pos(0, 0), cell |-> DefaultCell, mode |-> None]
    /\ cursor_mode = 0
    /\ cursor_modes = <<>>
    /\ mode = "Normal"
    /\ hldefs = [defaults |-> None, defs |-> <<>>]
    /\ panicked = FALSE
    /\ tomb = [g \in GridIds |-> None]
    /\ last = [ev |-> "Init", seq |-> 0, grid |-> 0, arg |-> <<>>, lives |-> {},
               foc |-> 1, pre |-> None, prewin |-> None, tombed |-> None,
               rose |-> {}, upped |-> None, again |-> FALSE]
    /\ raised = {}
    /\ unflushed = {}
    /\ placed = {}
    /\ queue = <<>>
    /\ waiting = None

Init == Constructed /\ grid_row = RowNew(0) /\ budget = MaxSteps

(* ------------------------------------------------------------------ *)
(* Replies of the blocking queries (Result<T, E>).                     *)
(* ------------------------------------------------------------------ *)
Err == [ok |-> FALSE]
Ok(v) == [ok |-> TRUE, val |-> v]

\* window.get_number(): the window number, or a transport error.
NumberReplies == {Err} \cup {Ok(n) : n \in WinIds}

\* window_rectangle(): position and size of the window, or a transport error.
RectReplies ==
    {Err} \cup {Ok([x |-> at[2], y |-> at[1], width |-> size[1], height |-> size[2]]) :
                    at \in Places, size \in Sizes}

\* focused.compare_exchange(grid, 1): the value of focused afterwards.
CompareExchange(current, expected, new) ==
    IF current = expected THEN new ELSE current

(* ------------------------------------------------------------------ *)
(* AppModel::update, one operator per RedrawEvent arm.                 *)
(* ------------------------------------------------------------------ *)
\* Mutant: a live grid is dropped and created anew instead of resized.
ResizeRecreates(grid, width, height) ==
    /\ focused' = grid
    /\ vgrids' = MapInsert(vgrids, grid, VimGridNew(0, Pos(0, 0), width, height))
    /\ relationships' = MapInsert(relationships, grid, 0)
    /\ UNCHANGED <<flag_vars, cursor_vars, hldefs, panicked>>

Resize(grid, width, height) ==
    /\ focused' = grid
    /\ IF Live(grid)
       THEN /\ vgrids' = [vgrids EXCEPT ![grid] = VimGridResize(@, width, height)]
            /\ UNCHANGED relationships
       ELSE /\ vgrids' = MapInsert(vgrids, grid,
                                   VimGridNew(0, Pos(0, 0), width, height))
            /\ relationships' = MapInsert(relationships, grid, 0)
    /\ UNCHANGED <<flag_vars, cursor_vars, hldefs, panicked>>

\* Mutant: a live grid is dropped and created anew at the new place.
WindowPositionRecreates(grid, number, start_row, start_column, width, height) ==
    IF ~number.ok
    THEN /\ panicked' = TRUE
         /\ UNCHANGED model
    ELSE /\ focused' = grid
         /\ vgrids' = MapInsert(vgrids, grid,
                                VimGridNew(number.val,
                                           Pos(start_column * MetricsWidth,
                                               start_row * MetricsHeight),
                                           width, height))
         /\ relationships' = MapInsert(relationships, grid, number.val)
         /\ UNCHANGED <<flag_vars, cursor_vars, hldefs, panicked>>

WindowPosition(grid, number, start_row, start_column, width, height) ==
    IF ~number.ok
    THEN \* get_number().unwrap() on Err
         /\ panicked' = TRUE
         /\ UNCHANGED model
    ELSE LET winid == number.val
             x == start_column * MetricsWidth
             y == start_row * MetricsHeight
         IN  /\ focused' = grid
             /\ IF ~Live(grid)
                THEN /\ vgrids' = MapInsert(vgrids, grid,
                                            VimGridNew(winid, Pos(x, y), width, height))
                     /\ relationships' = MapInsert(relationships, grid, winid)
                     /\ UNCHANGED panicked
                ELSE LET moved == VimGridSetPos(
                                      VimGridResize(vgrids[grid], width, height), x, y)
                     IN  IF grid \in DOMAIN relationships
                         THEN /\ relationships' = [relationships EXCEPT ![grid] = winid]
                              /\ vgrids' = [vgrids EXCEPT ![grid] = VimGridShow(moved)]
                              /\ UNCHANGED panicked
                         ELSE \* relationships.get_mut(&grid).unwrap() on None
                              /\ vgrids' = [vgrids EXCEPT ![grid] = moved]
                              /\ panicked' = TRUE
                              /\ UNCHANGED relationships
             /\ UNCHANGED <<flag_vars, cursor_vars, hldefs>>

\* Mutant: the association record is written before the rectangle query.
WindowViewportEager(grid, number, rect) ==
    IF ~number.ok
    THEN UNCHANGED <<model, panicked>>
    ELSE /\ relationships' = MapInsert(relationships, grid, number.val)
         /\ vgrids' = IF Live(grid)
                      THEN [vgrids EXCEPT ![grid] = VimGridShow(@)]
                      ELSE IF rect.ok
                           THEN MapInsert(vgrids, grid,
                                    VimGridNew(number.val,
                                               Pos(rect.val.x, rect.val.y),
                                               rect.val.width, rect.val.height))
                           ELSE vgrids
         /\ UNCHANGED <<focused, flag_vars, cursor_vars, hldefs, panicked>>

\* As WindowViewport, with the grid focused the way WindowPosition does.
WindowViewportFocuses(grid, number, rect) ==
    IF ~number.ok
    THEN UNCHANGED <<model, panicked>>
    ELSE LET winid == number.val
         IN  IF ~Live(grid)
             THEN IF ~rect.ok
                  THEN UNCHANGED <<model, panicked>>
                  ELSE /\ vgrids' = MapInsert(vgrids, grid,
                                        VimGridNew(winid,
                                                   Pos(rect.val.x, rect.val.y),
                                                   rect.val.width, rect.val.height))
                       /\ relationships' = MapInsert(relationships, grid, winid)
                       /\ UNCHANGED <<focused, flag_vars, cursor_vars, hldefs, panicked>>
             ELSE /\ focused' = grid
                  /\ vgrids' = [vgrids EXCEPT ![grid] = VimGridShow(@)]
                  /\ IF grid \in DOMAIN relationships
                     THEN /\ relationships' = [relationships EXCEPT ![grid] = winid]
                          /\ UNCHANGED panicked
                     ELSE /\ panicked' = TRUE
                          /\ UNCHANGED relationships
                  /\ UNCHANGED <<flag_vars, cursor_vars, hldefs>>

WindowViewport(grid, number, rect) ==
    IF ~number.ok
    THEN \* logged, return true
         UNCHANGED <<model, panicked>>
    ELSE LET winid == number.val
         IN  IF ~Live(grid)
             THEN IF ~rect.ok
                  THEN \* logged, return true
                       UNCHANGED <<model, panicked>>
                  ELSE /\ vgrids' = MapInsert(vgrids, grid,
                                        VimGridNew(winid,
                                                   Pos(rect.val.x, rect.val.y),
                                                   rect.val.width, rect.val.height))
                       /\ relationships' = MapInsert(relationships, grid, winid)
                       /\ UNCHANGED <<focused, flag_vars, cursor_vars, hldefs, panicked>>
             ELSE /\ vgrids' = [vgrids EXCEPT ![grid] = VimGridShow(@)]
                  /\ IF grid \in DOMAIN relationships
                     THEN /\ relationships' = [relationships EXCEPT ![grid] = winid]
                          /\ UNCHANGED panicked
                     ELSE \* relationships.get_mut(&grid).unwrap() on None
                          /\ panicked' = TRUE
                          /\ UNCHANGED relationships
                  /\ UNCHANGED <<focused, flag_vars, cursor_vars, hldefs>>

\* Mutant: hiding a grid removes it.
WindowHideRemoves(grid) ==
    /\ focused' = CompareExchange(focused, grid, 1)
    /\ relationships' = MapRemove(relationships, grid)
    /\ vgrids' = MapRemove(vgrids, grid)
    /\ UNCHANGED <<flag_vars, cursor_vars, hldefs, panicked>>

\* As WindowHide, with the buffer of the hidden grid cleared.
WindowHideForgets(grid) ==
    /\ focused' = CompareExchange(focused, grid, 1)
    /\ IF Live(grid)
       THEN /\ vgrids' = [vgrids EXCEPT ![grid] = VimGridClear(VimGridHide(@))]
            /\ UNCHANGED panicked
       ELSE /\ panicked' = TRUE
            /\ UNCHANGED vgrids
    /\ UNCHANGED <<relationships, flag_vars, cursor_vars, hldefs>>

WindowHide(grid) ==
    /\ focused' = CompareExchange(focused, grid, 1)
    /\ IF Live(grid)
       THEN /\ vgrids' = [vgrids EXCEPT ![grid] = VimGridHide(@)]
            /\ UNCHANGED panicked
       ELSE \* vgrids.get_mut(grid).unwrap() on None
            /\ panicked' = TRUE
            /\ UNCHANGED vgrids
    /\ UNCHANGED <<relationships, flag_vars, cursor_vars, hldefs>>

\* Mutant: the association record is not removed.
WindowCloseKeepsRelation(grid) ==
    /\ focused' = CompareExchange(focused, grid, 1)
    /\ vgrids' = MapRemove(vgrids, grid)
    /\ UNCHANGED <<relationships, flag_vars, cursor_vars, hldefs, panicked>>

\* Mutant: the focus is reset to 1 whichever grid is closed.
WindowCloseResetsFocus(grid) ==
    /\ focused' = 1
    /\ relationships' = MapRemove(relationships, grid)
    /\ vgrids' = MapRemove(vgrids, grid)
    /\ UNCHANGED <<flag_vars, cursor_vars, hldefs, panicked>>

WindowClose(grid) ==
    /\ focused' = CompareExchange(focused, grid, 1)
    /\ relationships' = MapRemove(relationships, grid)
    /\ vgrids' = MapRemove(vgrids, grid)
    /\ UNCHANGED <<flag_vars, cursor_vars, hldefs, panicked>>

\* As Destroy, without the compare_exchange on focused.
DestroyKeepsFocus(grid) ==
    /\ relationships' = MapRemove(relationships, grid)
    /\ vgrids' = MapRemove(vgrids, grid)
    /\ UNCHANGED <<focused, flag_vars, cursor_vars, hldefs, panicked>>

\* Mutant: the grid is hidden and kept instead of removed.
DestroyHides(grid) ==
    /\ focused' = CompareExchange(focused, grid, 1)
    /\ vgrids' = IF Live(grid)
                 THEN [vgrids EXCEPT ![grid] = VimGridHide(@)]
                 ELSE vgrids
    /\ UNCHANGED <<relationships, flag_vars, cursor_vars, hldefs, panicked>>

\* Mutant: the grid is looked up with unwrap() before it is removed.
DestroyUnwrap(grid) ==
    /\ focused' = CompareExchange(focused, grid, 1)
    /\ IF Live(grid)
       THEN /\ relationships' = MapRemove(relationships, grid)
            /\ vgrids' = MapRemove(vgrids, grid)
            /\ UNCHANGED panicked
       ELSE /\ panicked' = TRUE
            /\ UNCHANGED <<vgrids, relationships>>
    /\ UNCHANGED <<flag_vars, cursor_vars, hldefs>>

Destroy(grid) ==
    /\ focused' = CompareExchange(focused, grid, 1)
    /\ relationships' = MapRemove(relationships, grid)
    /\ vgrids' = MapRemove(vgrids, grid)
    /\ UNCHANGED <<flag_vars, cursor_vars, hldefs, panicked>>

\* vgrids.flush(): hands the batch to the view; no field of the model changes.
Flush == UNCHANGED <<model, panicked>>

\* As Clear, with every grid cleared.
ClearEverything(grid) ==
    /\ vgrids' = [g \in DOMAIN vgrids |-> VimGridClear(vgrids[g])]
    /\ UNCHANGED <<relationships, focused, flag_vars, cursor_vars, hldefs, panicked>>

Clear(grid) ==
    \* vgrids.get_mut(grid).map(|grid| grid.clear()): nothing on an absent grid
    /\ vgrids' = IF Live(grid)
                 THEN [vgrids EXCEPT ![grid] = VimGridClear(@)]
                 ELSE vgrids
    /\ UNCHANGED <<relationships, focused, flag_vars, cursor_vars, hldefs, panicked>>

GridLine(grid, row, column_start, cells) ==
    IF Live(grid)
    THEN /\ vgrids' = [vgrids EXCEPT
                          ![grid].textbuf = TextBufSetCells(@, row, column_start, cells)]
         /\ UNCHANGED <<relationships, focused, flag_vars, cursor_vars, hldefs, panicked>>
    ELSE \* vgrids.get_mut(grid).expect("grid not found")
         /\ panicked' = TRUE
         /\ UNCHANGED model

\* As Scroll, with the two directions exchanged.
ScrollSwapped(grid, rows, columns) ==
    IF ~Live(grid)
    THEN /\ panicked' = TRUE
         /\ UNCHANGED model
    ELSE IF rows > 0
         THEN /\ vgrids' = [vgrids EXCEPT ![grid] = VimGridDown(@, rows)]
              /\ UNCHANGED <<relationships, focused, flag_vars, cursor_vars, hldefs,
                             panicked>>
         ELSE IF rows < 0
              THEN /\ vgrids' = [vgrids EXCEPT ![grid] = VimGridUp(@, -rows)]
                   /\ UNCHANGED <<relationships, focused, flag_vars, cursor_vars,
                                  hldefs, panicked>>
              ELSE /\ panicked' = TRUE
                   /\ UNCHANGED model

Scroll(grid, rows, columns) ==
    IF ~Live(grid)
    THEN \* vgrids.get_mut(grid).unwrap() on None
         /\ panicked' = TRUE
         /\ UNCHANGED model
    ELSE IF rows > 0
         THEN /\ vgrids' = [vgrids EXCEPT ![grid] = VimGridUp(@, rows)]
              /\ UNCHANGED <<relationships, focused, flag_vars, cursor_vars, hldefs,
                             panicked>>
         ELSE IF rows < 0
              THEN /\ vgrids' = [vgrids EXCEPT ![grid] = VimGridDown(@, -rows)]
                   /\ UNCHANGED <<relationships, focused, flag_vars, cursor_vars,
                                  hldefs, panicked>>
              ELSE \* unimplemented!(): columns positive, negative, or both zero
                   /\ panicked' = TRUE
                   /\ UNCHANGED model

\* As CursorGoto, with set_pos outside the test for the cell.
CursorGotoMovesAnyway(grid, row, column) ==
    IF ~Live(grid)
    THEN /\ panicked' = TRUE
         /\ UNCHANGED model
    ELSE LET vgrid == vgrids[grid]
             cell == TextBufCell(vgrid.textbuf, row, column)
             at == Pos(MetricsWidth * column + vgrid.pos.x,
                       MetricsHeight * row + vgrid.pos.y)
         IN  /\ cursor' = IF cell # None
                          THEN [cursor EXCEPT !.pos = at, !.cell = cell[1]]
                          ELSE [cursor EXCEPT !.pos = at]
             /\ cursor_redraw' = TRUE
             /\ UNCHANGED <<grid_vars, focused, background_changed, font_changed,
                            cursor_mode, cursor_modes, mode, hldefs, panicked>>

\* As CursorGoto, with the position taken from the cell alone.
CursorGotoFromOrigin(grid, row, column) ==
    IF ~Live(grid)
    THEN /\ panicked' = TRUE
         /\ UNCHANGED model
    ELSE LET vgrid == vgrids[grid]
             cell == TextBufCell(vgrid.textbuf, row, column)
         IN  /\ cursor' = IF cell # None
                          THEN [cursor EXCEPT
                                   !.pos = Pos(MetricsWidth * column,
                                               MetricsHeight * row),
                                   !.cell = cell[1]]
                          ELSE cursor
             /\ cursor_redraw' = TRUE
             /\ UNCHANGED <<grid_vars, focused, background_changed, font_changed,
                            cursor_mode, cursor_modes, mode, hldefs, panicked>>

CursorGoto(grid, row, column) ==
    IF ~Live(grid)
    THEN \* vgrids.get(grid).unwrap() on None
         /\ panicked' = TRUE
         /\ UNCHANGED model
    ELSE LET vgrid == vgrids[grid]
             cell == TextBufCell(vgrid.textbuf, row, column)
         IN  /\ cursor' = IF cell # None
                          THEN [cursor EXCEPT
                                   !.pos = Pos(MetricsWidth * column + vgrid.pos.x,
                                               MetricsHeight * row + vgrid.pos.y),
                                   !.cell = cell[1]]
                          ELSE cursor
             /\ cursor_redraw' = TRUE
             /\ UNCHANGED <<grid_vars, focused, background_changed, font_changed,
                            cursor_mode, cursor_modes, mode, hldefs, panicked>>

ModeInfoSet(new_modes) ==
    /\ cursor_modes' = new_modes
    /\ cursor_redraw' = TRUE
    /\ IF cursor_mode < Len(new_modes)
       THEN /\ cursor' = [cursor EXCEPT !.mode = Some(new_modes[cursor_mode + 1])]
            /\ UNCHANGED panicked
       ELSE \* self.cursor_modes[self.cursor_mode]: index out of bounds
            /\ panicked' = TRUE
            /\ UNCHANGED cursor
    /\ UNCHANGED <<grid_vars, focused, background_changed, font_changed,
                   cursor_mode, mode, hldefs>>

ModeChange(new_mode, mode_index) ==
    /\ mode' = new_mode
    /\ cursor_mode' = mode_index
    /\ cursor_redraw' = TRUE
    /\ IF mode_index < Len(cursor_modes)
       THEN /\ cursor' = [cursor EXCEPT !.mode = Some(cursor_modes[mode_index + 1])]
            /\ UNCHANGED panicked
       ELSE \* self.cursor_modes[self.cursor_mode]: index out of bounds
            /\ panicked' = TRUE
            /\ UNCHANGED cursor
    /\ UNCHANGED <<grid_vars, focused, background_changed, font_changed,
                   cursor_modes, hldefs>>

DefaultColorsSet(colors) ==
    /\ background_changed' = TRUE
    /\ hldefs' = [hldefs EXCEPT !.defaults = Some(colors)]
    /\ UNCHANGED <<grid_vars, focused, cursor_redraw, font_changed, cursor_vars,
                   panicked>>

\* As HighlightAttributesDefine, with the background marked dirty as well.
HighlightAttributesDefineDirty(id, style) ==
    /\ background_changed' = TRUE
    /\ hldefs' = [hldefs EXCEPT !.defs = MapInsert(@, id, style)]
    /\ UNCHANGED <<grid_vars, focused, cursor_redraw, font_changed, cursor_vars,
                   panicked>>

HighlightAttributesDefine(id, style) ==
    /\ hldefs' = [hldefs EXCEPT !.defs = MapInsert(@, id, style)]
    /\ UNCHANGED <<grid_vars, focused, flag_vars, cursor_vars, panicked>>

\* As FloatCell, with the anchor taken for the top left corner always.
FloatCellTopLeft(anchor, anchor_column, anchor_row, width, height) ==
    Pos(anchor_column, anchor_row)

\* The corner of the float grid that touches the anchor point, in cells.
FloatCell(anchor, anchor_column, anchor_row, width, height) ==
    CASE anchor = "NorthWest" -> Pos(anchor_column, anchor_row)
      [] anchor = "NorthEast" -> Pos(anchor_column - width, anchor_row)
      [] anchor = "SouthWest" -> Pos(anchor_column, anchor_row - height)
      [] anchor = "SouthEast" -> Pos(anchor_column - width, anchor_row - height)

\* The device position of the float grid: basepos plus the cell offset in
\* metrics.
FloatPos(basepos, anchor, anchor_column, anchor_row, width, height) ==
    LET at == FloatCell(anchor, anchor_column, anchor_row, width, height)
        x == at.x * MetricsWidth
        y == at.y * MetricsHeight
    IN  Pos(basepos.x + x, basepos.y + y)

\* As WindowFloatPosition, with the float grid shown as well.
WindowFloatPositionShows(grid, anchor, anchor_grid, anchor_row, anchor_column, focusable) ==
    IF ~Live(anchor_grid) \/ ~Live(grid)
    THEN /\ panicked' = TRUE
         /\ UNCHANGED model
    ELSE LET basepos == vgrids[anchor_grid].pos
             vgrid == vgrids[grid]
             at == FloatCell(anchor, anchor_column, anchor_row,
                             vgrid.width, vgrid.height)
         IN  /\ vgrids' = [vgrids EXCEPT ![grid] =
                              VimGridShow(
                                  VimGridSetFocusable(
                                      VimGridSetIsFloat(
                                          VimGridSetPos(vgrid,
                                              basepos.x + at.x * MetricsWidth,
                                              basepos.y + at.y * MetricsHeight),
                                          TRUE),
                                      focusable))]
             /\ UNCHANGED <<relationships, focused, flag_vars, cursor_vars, hldefs,
                            panicked>>

\* As WindowFloatPosition, with the offset added to the float grid's own position.
WindowFloatPositionDrifts(grid, anchor, anchor_grid, anchor_row, anchor_column, focusable) ==
    IF ~Live(anchor_grid) \/ ~Live(grid)
    THEN /\ panicked' = TRUE
         /\ UNCHANGED model
    ELSE LET vgrid == vgrids[grid]
             to == FloatPos(vgrid.pos, anchor, anchor_column, anchor_row,
                            vgrid.width, vgrid.height)
         IN  /\ vgrids' = [vgrids EXCEPT ![grid] =
                              VimGridSetFocusable(
                                  VimGridSetIsFloat(VimGridSetPos(vgrid, to.x, to.y), TRUE),
                                  focusable)]
             /\ UNCHANGED <<relationships, focused, flag_vars, cursor_vars, hldefs,
                            panicked>>

WindowFloatPosition(grid, anchor, anchor_grid, anchor_row, anchor_column, focusable) ==
    IF ~Live(anchor_grid) \/ ~Live(grid)
    THEN \* vgrids.get(anchor_grid).unwrap() / vgrids.get_mut(grid).unwrap() on None
         /\ panicked' = TRUE
         /\ UNCHANGED model
    ELSE LET basepos == vgrids[anchor_grid].pos
             vgrid == vgrids[grid]
             to == FloatPos(basepos, anchor, anchor_column, anchor_row,
                            vgrid.width, vgrid.height)
         IN  /\ vgrids' = [vgrids EXCEPT ![grid] =
                              VimGridSetFocusable(
                                  VimGridSetIsFloat(
                                      VimGridSetPos(vgrid, to.x, to.y),
                                      TRUE),
                                  focusable)]
             /\ UNCHANGED <<relationships, focused, flag_vars, cursor_vars, hldefs,
                            panicked>>

\* OptionSet{GuiFont}: a font name that is not blank replaces the font and
\* marks it changed (the metrics recomputed from it are kept fixed here).
OptionSetGuiFont(guifont) ==
    /\ font_changed' = IF guifont # "" THEN TRUE ELSE font_changed
    /\ UNCHANGED <<grid_vars, focused, background_changed, cursor_redraw,
                   cursor_vars, hldefs, panicked>>

\* As PaintCycle, with cursor_redraw loaded instead of exchanged.
PaintCycleLoads ==
    /\ background_changed' = CompareExchange(background_changed, TRUE, FALSE)
    /\ font_changed' = CompareExchange(font_changed, TRUE, FALSE)
    /\ UNCHANGED <<grid_vars, focused, cursor_redraw, cursor_vars, hldefs, panicked>>

\* pre_view: each flag is exchanged from true to false; the exchange that
\* finds true queues the redraw of its area.
PaintCycle ==
    /\ background_changed' = CompareExchange(background_changed, TRUE, FALSE)
    /\ cursor_redraw' = CompareExchange(cursor_redraw, TRUE, FALSE)
    /\ font_changed' = CompareExchange(font_changed, TRUE, FALSE)
    /\ UNCHANGED <<grid_vars, focused, cursor_vars, hldefs, panicked>>

\* One render pass of the grids: view is called for every live grid.
RenderPass ==
    /\ vgrids' = [g \in DOMAIN vgrids |-> VimGridView(vgrids[g])]
    /\ UNCHANGED <<relationships, focused, flag_vars, cursor_vars, hldefs, panicked>>

\* As Ignored, with the event taken for a failure.
IgnoredFails ==
    /\ panicked' = TRUE
    /\ UNCHANGED model

\* BusyStart, BusyStop, the Message* variants that are only logged, and the
\* catch-all arm.
Ignored == UNCHANGED <<model, panicked>>

(* ------------------------------------------------------------------ *)
(* The applier: one redraw event at a time, until a panic.             *)
(* ------------------------------------------------------------------ *)
\* Bookkeeping of one applied event: the history variables.
HasWrittenCell(vgrid) ==
    \E r \in 1..Len(vgrid.textbuf) :
        \E c \in 1..Len(vgrid.textbuf[r]) : vgrid.textbuf[r][c] # DefaultCell

\* An event is applied while the applier runs and events are left.
Ready == ~panicked /\ budget > 0

\* The history of one applied event. last: the event, its number, and what it
\* met: the live grid ids, the focused id, the named grid with its window
\* association and its tomb (None when there is none), the dirty flags it
\* raised, and the buffer the event before it scrolled up (None when that
\* event was no scroll up of the same grid).
History(ev, seq, grid, arg) ==
    [ev |-> ev, seq |-> seq, grid |-> grid, arg |-> arg,
     lives |-> DOMAIN vgrids,
     foc |-> focused,
     pre |-> IF Live(grid) THEN Some(vgrids[grid]) ELSE None,
     prewin |-> IF grid \in DOMAIN relationships
                THEN Some(relationships[grid]) ELSE None,
     tombed |-> IF grid \in GridIds THEN tomb[grid] ELSE None,
     rose |-> Dirty' \ Dirty,
     upped |-> IF /\ last.ev = "Scroll" /\ last.grid = grid /\ last.pre # None
                  /\ last.arg.rows > 0 /\ Live(grid)
               THEN Some([buf |-> last.pre[1].textbuf, n |-> last.arg.rows])
               ELSE None,
     again |-> last.ev = ev /\ last.grid = grid /\ last.arg = arg]

\* The history after the event ev, the seq-th, has been applied. tomb: set
\* when WindowClose or Destroy meets a live grid, emptied when another event
\* leaves the id live. raised and unflushed: grow by the flags the event set;
\* Flush empties unflushed. placed: grows by the grids whose pending move the
\* event set, and loses the grids it removed.
Applied(ev, seq, grid, arg) ==
    /\ last' = History(ev, seq, grid, arg)
    /\ UNCHANGED grid_row
    /\ raised' = raised \cup (Dirty' \ Dirty)
    /\ unflushed' = IF ev = "Flush" THEN {} ELSE unflushed \cup (Dirty' \ Dirty)
    /\ placed' = {g \in DOMAIN vgrids' :
                     \/ g \in placed
                     \/ /\ vgrids'[g].move_to # None
                        /\ (g \in DOMAIN vgrids => vgrids[g].move_to # vgrids'[g].move_to)}
    /\ tomb' = IF ev \in {"WindowClose", "Destroy"}
               THEN IF Live(grid)
                    THEN [tomb EXCEPT ![grid] =
                             Some([written |-> HasWrittenCell(vgrids[grid]),
                                   pos |-> vgrids[grid].pos,
                                   winid |-> IF grid \in DOMAIN relationships
                                             THEN relationships[grid] ELSE 0])]
                    ELSE tomb
               ELSE IF grid \in DOMAIN vgrids'
                    THEN [tomb EXCEPT ![grid] = None]
                    ELSE tomb

\* One event handed to update and applied before the next.
Record(ev, grid, arg) ==
    /\ budget' = budget - 1
    /\ Applied(ev, last.seq + 1, grid, arg)
    /\ UNCHANGED <<queue, waiting>>

Anchors == {"NorthWest", "NorthEast", "SouthWest", "SouthEast"}
EditorModes == {"Normal", "Insert"}
\* Scroll amounts: rows up to the tallest grid either way; columns by one.
ScrollAmounts == -MaxDim..MaxDim
ColumnAmounts == -1..1
FontNames == {"", "Monospace:h12"}
IgnoredVariants ==
    {"BusyStart", "BusyStop", "MessageShowMode", "MessageRuler",
     "MessageSetPosition", "MessageShowCommand", "MessageHistoryShow",
     "MessageClear", "Unhandled"}

\* GridLine payloads: one item, with and without a repeat count.
Lines ==
    {<<[text |-> "a", highlight_id |-> hl, repeat |-> rep, double_width |-> FALSE]>> :
        hl \in 1..MaxHl, rep \in {None} \cup {Some(n) : n \in 2..MaxDim}}

\* Mode tables of every length up to MaxModes.
ModeTables ==
    {[i \in 1..n |-> [shape |-> "Block", attr_id |-> i - 1]] : n \in 0..MaxModes}

ResizeEvent ==
    \E grid \in GridIds, size \in Sizes :
        /\ Ready
        /\ Resize(grid, size[1], size[2])
        /\ Record("Resize", grid, [width |-> size[1], height |-> size[2]])

WindowPositionEvent ==
    \E grid \in GridIds, number \in NumberReplies, at \in Places, size \in Sizes :
        /\ Ready
        /\ WindowPosition(grid, number, at[1], at[2], size[1], size[2])
        /\ Record("WindowPosition", grid,
                [number |-> number, start_row |-> at[1], start_column |-> at[2],
                 width |-> size[1], height |-> size[2]])

\* The rectangle query is issued only when the number resolved and the grid
\* is absent; otherwise no reply is drawn for it.
WindowViewportEvent ==
    \E grid \in GridIds, number \in NumberReplies, rect \in RectReplies :
        /\ (~number.ok \/ Live(grid)) => rect = Err
        /\ Ready
        /\ WindowViewport(grid, number, rect)
        /\ Record("WindowViewport", grid, [number |-> number, rect |-> rect])

WindowHideEvent ==
    \E grid \in GridIds :
        /\ Ready
        /\ WindowHide(grid)
        /\ Record("WindowHide", grid, <<>>)

WindowCloseEvent ==
    \E grid \in GridIds :
        /\ Ready
        /\ WindowClose(grid)
        /\ Record("WindowClose", grid, <<>>)

DestroyEvent ==
    \E grid \in GridIds :
        /\ Ready
        /\ Destroy(grid)
        /\ Record("Destroy", grid, <<>>)

FlushEvent ==
    /\ Ready
    /\ Flush
    /\ Record("Flush", 0, <<>>)

ClearEvent ==
    \E grid \in GridIds :
        /\ Ready
        /\ Clear(grid)
        /\ Record("Clear", grid, <<>>)

\* Rows and columns of a GridLine are clamped by the backend to the grid's
\* own geometry; on an absent grid the coordinates play no part.
GridLineEvent ==
    \E grid \in GridIds, row \in 0..(MaxDim - 1), column_start \in 0..(MaxDim - 1),
       cells \in Lines :
        /\ IF Live(grid)
           THEN /\ row < vgrids[grid].height
                /\ column_start + TotalRepeat(cells) <= vgrids[grid].width
           ELSE row = 0 /\ column_start = 0
        /\ Ready
        /\ GridLine(grid, row, column_start, cells)
        /\ Record("GridLine", grid, <<>>)

ScrollEvent ==
    \E grid \in GridIds, rows \in ScrollAmounts, columns \in ColumnAmounts :
        /\ Ready
        /\ Scroll(grid, rows, columns)
        /\ Record("Scroll", grid, [rows |-> rows, columns |-> columns])

CursorGotoEvent ==
    \E grid \in GridIds, row \in 0..MaxDim, column \in 0..MaxDim :
        /\ Ready
        /\ CursorGoto(grid, row, column)
        /\ Record("CursorGoto", grid, [row |-> row, column |-> column])

ModeInfoSetEvent ==
    \E new_modes \in ModeTables :
        /\ Ready
        /\ ModeInfoSet(new_modes)
        /\ Record("ModeInfoSet", 0, <<>>)

ModeChangeEvent ==
    \E new_mode \in EditorModes, mode_index \in 0..MaxModes :
        /\ Ready
        /\ ModeChange(new_mode, mode_index)
        /\ Record("ModeChange", 0, <<>>)

\* The values of a style (Colors, Style), told apart by a number.
Styles == 0..MaxHl

DefaultColorsSetEvent ==
    \E colors \in Styles :
        /\ Ready
        /\ DefaultColorsSet(colors)
        /\ Record("DefaultColorsSet", 0, [colors |-> colors])

HighlightAttributesDefineEvent ==
    \E id \in HlIds, style \in Styles :
        /\ Ready
        /\ HighlightAttributesDefine(id, style)
        /\ Record("HighlightAttributesDefine", 0, [id |-> id, style |-> style])

WindowFloatPositionEvent ==
    \E grid \in GridIds, anchor \in Anchors, anchor_grid \in GridIds,
       at \in Places, focusable \in BOOLEAN :
        /\ Ready
        /\ WindowFloatPosition(grid, anchor, anchor_grid, at[1], at[2], focusable)
        /\ Record("WindowFloatPosition", grid,
                [anchor |-> anchor, anchor_grid |-> anchor_grid,
                 anchor_row |-> at[1], anchor_column |-> at[2],
                 focusable |-> focusable])

IgnoredEvent ==
    \E variant \in IgnoredVariants :
        /\ Ready
        /\ Ignored
        /\ Record("Ignored", 0, [variant |-> variant])

GuiFontEvent ==
    \E guifont \in FontNames :
        /\ Ready
        /\ OptionSetGuiFont(guifont)
        /\ Record("OptionSet", 0, <<>>)

\* One pass of the view after an update: redrawn are the flags whose exchange
\* found true, since the flags set since the paint cycle before.
PaintCycleEvent ==
    /\ Ready
    /\ PaintCycle
    /\ budget' = budget - 1
    /\ last' = History("PaintCycle", last.seq + 1, 0,
                       [redrawn |-> Dirty, since |-> raised])
    /\ raised' = {}
    /\ UNCHANGED <<unflushed, placed, grid_row, tomb, queue, waiting>>

\* moved: the widgets moved by the pass and where to; since: the grids
\* given a position since the pass before.
RenderPassEvent ==
    /\ Ready
    /\ RenderPass
    /\ budget' = budget - 1
    /\ last' = History("RenderPass", last.seq + 1, 0,
                       [moved |-> [g \in {h \in DOMAIN vgrids : Moved(vgrids[h]) # None}
                                      |-> Moved(vgrids[g])[1]],
                        since |-> placed])
    /\ placed' = {}
    /\ UNCHANGED <<raised, unflushed, grid_row, tomb, queue, waiting>>

Next ==
    \/ ResizeEvent
    \/ WindowPositionEvent
    \/ WindowViewportEvent
    \/ WindowHideEvent
    \/ WindowCloseEvent
    \/ DestroyEvent
    \/ GridLineEvent
    \/ FlushEvent
    \/ ClearEvent
    \/ ScrollEvent
    \/ CursorGotoEvent
    \/ ModeInfoSetEvent
    \/ ModeChangeEvent
    \/ DefaultColorsSetEvent
    \/ HighlightAttributesDefineEvent
    \/ WindowFloatPositionEvent
    \/ IgnoredEvent

\* Any MaxSteps redraw events.
Spec == Init /\ [][Next]_vars

\* The events of the grid lifecycle: creation, geometry, content, removal.
LifeNext ==
    \/ ResizeEvent
    \/ WindowPositionEvent
    \/ WindowViewportEvent
    \/ WindowHideEvent
    \/ WindowCloseEvent
    \/ DestroyEvent
    \/ GridLineEvent

LifeInit == Constructed /\ grid_row = RowNew(0) /\ budget = MaxGridSteps

\* Any MaxGridSteps events of the grid lifecycle.
LifeSpec == LifeInit /\ [][LifeNext]_vars

\* The events that raise a dirty flag, the Flush that ends a batch, and the
\* paint cycle of the view.
PaintNext ==
    \/ ResizeEvent
    \/ CursorGotoEvent
    \/ ModeInfoSetEvent
    \/ DefaultColorsSetEvent
    \/ GuiFontEvent
    \/ FlushEvent
    \/ PaintCycleEvent

PaintInit == Constructed /\ grid_row = RowNew(0) /\ budget = MaxPaintSteps

\* Any MaxPaintSteps of these events and paint cycles.
PaintSpec == PaintInit /\ [][PaintNext]_vars

\* Creation, content and scrolling of grids.
ScrollNext ==
    \/ ResizeEvent
    \/ GridLineEvent
    \/ ScrollEvent

ScrollInit == Constructed /\ grid_row = RowNew(0) /\ budget = MaxScrollSteps

\* Any MaxScrollSteps of these events.
ScrollSpec == ScrollInit /\ [][ScrollNext]_vars

\* The events that name a grid.
NamedNext ==
    \/ GridLineEvent
    \/ ScrollEvent
    \/ ClearEvent
    \/ ResizeEvent
    \/ WindowPositionEvent
    \/ WindowViewportEvent
    \/ WindowHideEvent
    \/ WindowCloseEvent
    \/ DestroyEvent
    \/ WindowFloatPositionEvent

NamedInit == Constructed /\ grid_row = RowNew(0) /\ budget = MaxNamedSteps

\* Any MaxNamedSteps of these events.
NamedSpec == NamedInit /\ [][NamedNext]_vars

\* The events that position a grid, and the render pass of the grids.
ViewNext ==
    \/ WindowPositionEvent
    \/ WindowFloatPositionEvent
    \/ RenderPassEvent

ViewInit == Constructed /\ grid_row = RowNew(0) /\ budget = MaxViewSteps

\* Any MaxViewSteps of these events and render passes.
ViewSpec == ViewInit /\ [][ViewNext]_vars

(* ------------------------------------------------------------------ *)
(* The operations of a Row, applied one after the other to a row.      *)
(* ------------------------------------------------------------------ *)
RowLens == 0..MaxRowLen
Columns == 0..MaxRowLen

\* The cells a row starts with and insert_at is given.
RowCells ==
    {DefaultCell} \cup
    {[text |-> "a", hl_id |-> h, double_width |-> FALSE] : h \in 1..MaxHl}

InsertedCells == {[text |-> "c", hl_id |-> h, double_width |-> TRUE] : h \in HlIds}

\* The items of a Line (bridge::GridLineCell).
LineCells ==
    {[text |-> "b", highlight_id |-> h, repeat |-> n, double_width |-> TRUE] :
        h \in {None} \cup {Some(i) : i \in HlIds},
        n \in {None, Some(0), Some(MaxRepeat)}}

SeqsUpTo(S, n) == UNION {[1..k -> S] : k \in 0..n}

\* The rows Row::new and insert_at can build.
Rows == {[cells |-> cs, len |-> Len(cs)] : cs \in SeqsUpTo(RowCells, MaxRowLen)}

\* One call: the row and the history after it. was: the row before; in: the
\* arguments; ret: what the call returned; prior: the row before the call
\* before, when that call was a resize. A panic ends the run.
RowCall(op, in, out) ==
    /\ Ready
    /\ budget' = budget - 1
    /\ panicked' = ~out.done
    /\ grid_row' = IF out.done THEN out.val.row ELSE grid_row
    /\ UNCHANGED <<model, tomb, raised, unflushed, placed, queue, waiting>>
    /\ last' = History(op, last.seq + 1, 0,
                       [was |-> grid_row, in |-> in,
                        ret |-> IF out.done THEN out.val.ret ELSE None,
                        prior |-> IF last.ev = "Row::resize"
                                  THEN Some(last.arg.was) ELSE None])

RowNewCall ==
    \E len \in RowLens :
        RowCall("Row::new", [len |-> len], Returns([row |-> RowNew(len), ret |-> None]))

RowClearCall == RowCall("Row::clear", None, RowClear(grid_row))

RowResizeCall ==
    \E new_size \in RowLens :
        RowCall("Row::resize", [new_size |-> new_size], RowResize(grid_row, new_size))

RowClearRangeCall ==
    \E from \in Columns, to \in Columns :
        RowCall("Row::clear_range", [from |-> from, to |-> to],
                RowClearRange(grid_row, from, to))

RowCopyRangeCall ==
    \E from \in Columns, to \in Columns :
        RowCall("Row::copy_range", [from |-> from, to |-> to],
                RowCopyRange(grid_row, from, to))

RowInsertAtCall ==
    \E at \in Columns, cells \in SeqsUpTo(InsertedCells, MaxItems) :
        RowCall("Row::insert_at", [at |-> at, cells |-> cells],
                RowInsertAt(grid_row, at, cells))

RowReplaceCall ==
    \E column_start \in Columns, cells \in SeqsUpTo(LineCells, MaxItems) :
        RowCall("Row::replace", [column_start |-> column_start, cells |-> cells],
                RowReplace(grid_row, [column_start |-> column_start, cells |-> cells]))

RowToSegmentsCall ==
    \E cell_start \in Columns, end \in Columns :
        RowCall("Row::to_segments", [cell_start |-> cell_start, end |-> end],
                RowToSegments(grid_row, cell_start, end))

RowNext ==
    \/ RowNewCall
    \/ RowClearCall
    \/ RowResizeCall
    \/ RowClearRangeCall
    \/ RowCopyRangeCall
    \/ RowInsertAtCall
    \/ RowReplaceCall
    \/ RowToSegmentsCall

RowInit == Constructed /\ grid_row \in Rows /\ budget = MaxRowSteps

\* Any MaxRowSteps operations on any row of at most MaxRowLen cells.
RowSpec == RowInit /\ [][RowNext]_vars

(* ------------------------------------------------------------------ *)
(* The applier and the bridge: events arrive on a channel while update *)
(* may be blocked inside rt.block_on.                                  *)
(* ------------------------------------------------------------------ *)
\* The redraw events the bridge sends: two that query the window, two that
\* do not.
BlockEvents ==
    {[kind |-> "Resize", grid |-> grid, width |-> size[1], height |-> size[2]] :
        grid \in GridIds, size \in Sizes}
    \cup {[kind |-> "Destroy", grid |-> grid] : grid \in GridIds}
    \cup {[kind |-> "WindowPosition", grid |-> grid,
           start_row |-> at[1], start_column |-> at[2],
           width |-> size[1], height |-> size[2]] :
            grid \in GridIds, at \in Places, size \in Sizes}
    \cup {[kind |-> "WindowViewport", grid |-> grid] : grid \in GridIds}

Queries == {"WindowPosition", "WindowViewport"}

\* The number of events update has been entered with.
Started == IF waiting = None THEN last.seq ELSE waiting[1].seq

\* The bridge task sends the next decoded event; it runs on the runtime's
\* own threads, also while update is blocked.
BlockArrive ==
    \E ev \in BlockEvents :
        /\ budget > 0
        /\ budget' = budget - 1
        /\ queue' = Append(queue, [seq |-> MaxBlockSteps - budget + 1, ev |-> ev])
        /\ UNCHANGED <<model, panicked, tomb, last, raised, unflushed, placed,
                       grid_row, waiting>>

\* The arm of the event at the head of the channel, run to its end.
ApplyHead ==
    /\ LET seq == Head(queue).seq
           ev == Head(queue).ev
       IN  /\ IF ev.kind = "Resize"
              THEN Resize(ev.grid, ev.width, ev.height)
              ELSE Destroy(ev.grid)
           /\ Applied(ev.kind, seq, ev.grid, ev)
    /\ queue' = Tail(queue)
    /\ UNCHANGED <<budget, waiting>>

\* As BlockApply, were the query awaited on a spawned task instead of
\* blocking update: the next event is taken while the reply is pending.
BlockApplySpawned ==
    /\ ~panicked
    /\ queue # <<>>
    /\ Head(queue).ev.kind \notin Queries
    /\ ApplyHead

\* update is entered with an event whose arm issues no query; it is entered
\* only when the call before it has returned.
BlockApply ==
    /\ ~panicked
    /\ waiting = None
    /\ queue # <<>>
    /\ Head(queue).ev.kind \notin Queries
    /\ ApplyHead

\* update is entered with a WindowPosition or WindowViewport event and
\* blocks in rt.block_on until the reply to its query is there.
BlockBegin ==
    /\ ~panicked
    /\ waiting = None
    /\ queue # <<>>
    /\ Head(queue).ev.kind \in Queries
    /\ waiting' = Some(Head(queue))
    /\ queue' = Tail(queue)
    /\ UNCHANGED <<model, panicked, tomb, last, raised, unflushed, placed, grid_row,
                   budget>>

\* The reply (or the failure) of the query arrives and the arm runs to its
\* end.
BlockReply ==
    /\ waiting # None
    /\ LET seq == waiting[1].seq
           ev == waiting[1].ev
       IN  \E number \in NumberReplies, rect \in RectReplies :
               /\ (ev.kind = "WindowPosition" \/ ~number.ok \/ Live(ev.grid))
                      => rect = Err
               /\ IF ev.kind = "WindowPosition"
                  THEN WindowPosition(ev.grid, number, ev.start_row,
                                      ev.start_column, ev.width, ev.height)
                  ELSE WindowViewport(ev.grid, number, rect)
               /\ Applied(ev.kind, seq, ev.grid,
                          [number |-> number, rect |-> rect])
    /\ waiting' = None
    /\ UNCHANGED <<budget, queue>>

BlockNext ==
    \/ BlockArrive
    \/ BlockApply
    \/ BlockBegin
    \/ BlockReply

BlockInit == Constructed /\ grid_row = RowNew(0) /\ budget = MaxBlockSteps

\* MaxBlockSteps events sent by the bridge and applied by update.
BlockSpec == BlockInit /\ [][BlockNext]_vars

(* ------------------------------------------------------------------ *)
(* Properties.                                                         *)
(* ------------------------------------------------------------------ *)
\* The grid named by the last event was live when the event arrived.
WasLive == last.grid \in last.lives

\* Every cell of the buffer is the default cell.
AllDefault(buf) ==
    \A r \in 1..Len(buf) : \A c \in 1..Len(buf[r]) : buf[r][c] = DefaultCell

\* buf has height rows of width cells each.
HasShape(buf, width, height) ==
    Len(buf) = height /\ \A r \in 1..height : Len(buf[r]) = width

\* new is old resized: the overlapping area is kept, the rest is default.
KeepsOverlap(old, new) ==
    \A r \in 1..Len(new) : \A c \in 1..Len(new[r]) :
        new[r][c] = IF r <= Len(old) /\ c <= Len(old[r]) THEN old[r][c]
                    ELSE DefaultCell

\* C1: the grid map and the window-association map have the same grid ids:
\* every live grid has one association record and no record exists for a
\* grid that is not live.
C1_SameGridIds == DOMAIN vgrids = DOMAIN relationships

\* A live grid was removed, another one is still live, with the sentinel 0.
C1_Witness ==
    /\ last.ev \in {"WindowClose", "Destroy"}
    /\ WasLive
    /\ \E g \in DOMAIN vgrids : g \in DOMAIN relationships /\ relationships[g] = 0

\* C2: Resize on an absent id creates a w x h grid of default cells at (0,0)
\* with association 0; on a live id it resizes the grid in place and keeps
\* its position, visibility, float/focusable flags and association.
C2_Resize ==
    last.ev = "Resize" =>
        LET g == last.grid IN
        /\ g \in DOMAIN vgrids
        /\ g \in DOMAIN relationships
        /\ vgrids[g].width = last.arg.width
        /\ vgrids[g].height = last.arg.height
        /\ HasShape(vgrids[g].textbuf, last.arg.width, last.arg.height)
        /\ IF WasLive
           THEN /\ KeepsOverlap(last.pre[1].textbuf, vgrids[g].textbuf)
                /\ vgrids[g].pos = last.pre[1].pos
                /\ vgrids[g].visible = last.pre[1].visible
                /\ vgrids[g].is_float = last.pre[1].is_float
                /\ vgrids[g].focusable = last.pre[1].focusable
                /\ last.prewin # None
                /\ relationships[g] = last.prewin[1]
           ELSE /\ AllDefault(vgrids[g].textbuf)
                /\ vgrids[g].pos = Pos(0, 0)
                /\ relationships[g] = 0

\* A live grid away from the origin, with a window and a written cell, was
\* resized to another size.
C2_Witness ==
    /\ last.ev = "Resize"
    /\ WasLive
    /\ vgrids[last.grid].pos # Pos(0, 0)
    /\ relationships[last.grid] # 0
    /\ HasWrittenCell(vgrids[last.grid])
    /\ last.pre[1].width # vgrids[last.grid].width

\* C3: WindowPosition on a live grid whose window resolves resizes and
\* repositions the grid, overwrites its association with the resolved id and
\* shows it, keeping the cells of the overlapping area.
C3_WindowPositionLive ==
    (last.ev = "WindowPosition" /\ WasLive /\ last.arg.number.ok) =>
        LET g == last.grid IN
        /\ ~panicked
        /\ g \in DOMAIN vgrids
        /\ vgrids[g].width = last.arg.width
        /\ vgrids[g].height = last.arg.height
        /\ HasShape(vgrids[g].textbuf, last.arg.width, last.arg.height)
        /\ KeepsOverlap(last.pre[1].textbuf, vgrids[g].textbuf)
        /\ vgrids[g].pos = Pos(last.arg.start_column * MetricsWidth,
                               last.arg.start_row * MetricsHeight)
        /\ vgrids[g].visible
        /\ g \in DOMAIN relationships
        /\ relationships[g] = last.arg.number.val

\* A hidden grid with a written cell and no window was given a window, a new
\* size and a new position, and the written cell is still there.
C3_Witness ==
    /\ last.ev = "WindowPosition"
    /\ WasLive
    /\ last.arg.number.ok
    /\ ~last.pre[1].visible
    /\ last.prewin = Some(0)
    /\ last.pre[1].width # vgrids[last.grid].width
    /\ last.pre[1].pos # vgrids[last.grid].pos
    /\ HasWrittenCell(vgrids[last.grid])

\* C4: after Destroy or WindowClose of a grid, a Resize of the same id makes
\* a new grid: default cells, position (0,0), association 0, visible, not
\* float, focusable, no pending move.
C4_FreshAfterDestroy ==
    (last.ev = "Resize" /\ last.tombed # None) =>
        LET g == last.grid IN
        /\ ~WasLive
        /\ g \in DOMAIN vgrids
        /\ HasShape(vgrids[g].textbuf, last.arg.width, last.arg.height)
        /\ AllDefault(vgrids[g].textbuf)
        /\ vgrids[g].pos = Pos(0, 0)
        /\ vgrids[g].move_to = None
        /\ vgrids[g].visible
        /\ ~vgrids[g].is_float
        /\ vgrids[g].focusable
        /\ vgrids[g].win = 0
        /\ g \in DOMAIN relationships
        /\ relationships[g] = 0

\* The grid removed before had a written cell, a position away from the
\* origin and a window.
C4_Witness ==
    /\ last.ev = "Resize"
    /\ last.tombed # None
    /\ last.tombed[1].written
    /\ last.tombed[1].pos # Pos(0, 0)
    /\ last.tombed[1].winid # 0
    /\ last.grid \in DOMAIN vgrids

\* C5: WindowClose and Destroy leave the named grid absent from both maps and
\* remove no other id; on an id that is not live they remove nothing and do
\* not panic.
C5_CloseDestroyRemove ==
    last.ev \in {"WindowClose", "Destroy"} =>
        /\ ~panicked
        /\ last.grid \notin DOMAIN vgrids
        /\ last.grid \notin DOMAIN relationships
        /\ DOMAIN vgrids = last.lives \ {last.grid}

\* WindowClose of an id that is not live, while another grid is live.
C5_Witness ==
    /\ last.ev = "WindowClose"
    /\ ~WasLive
    /\ last.lives # {}
    /\ DOMAIN vgrids = last.lives
    /\ ~panicked

\* C6: on WindowClose and Destroy the focused grid id becomes 1 when it was
\* the named grid and is unchanged otherwise.
C6_FocusAfterRemoval ==
    last.ev \in {"WindowClose", "Destroy"} =>
        focused = IF last.foc = last.grid THEN 1 ELSE last.foc

\* The focused grid, which is not grid 1, was destroyed.
C6_Witness ==
    /\ last.ev = "Destroy"
    /\ last.foc = last.grid
    /\ last.grid # 1
    /\ WasLive
    /\ focused = 1

\* C7: the set of live grid ids changes only by Resize, WindowPosition and
\* WindowViewport adding the named id that was absent, and by WindowClose and
\* Destroy removing the named id that was live; every other event leaves it
\* as it was.
C7_LiveSetChanges ==
    /\ DOMAIN vgrids # last.lives =>
          \/ /\ last.ev \in {"Resize", "WindowPosition", "WindowViewport"}
             /\ ~WasLive
             /\ DOMAIN vgrids = last.lives \cup {last.grid}
          \/ /\ last.ev \in {"WindowClose", "Destroy"}
             /\ WasLive
             /\ DOMAIN vgrids = last.lives \ {last.grid}
    /\ last.ev = "Resize" => last.grid \in DOMAIN vgrids
    /\ (last.ev = "WindowPosition" /\ last.arg.number.ok) =>
          last.grid \in DOMAIN vgrids
    /\ (last.ev = "WindowViewport" /\ last.arg.number.ok /\ last.arg.rect.ok) =>
          last.grid \in DOMAIN vgrids
    /\ last.ev \in {"WindowClose", "Destroy"} => last.grid \notin DOMAIN vgrids

\* WindowHide met a live grid, and the live grids are those of before.
C7_Witness ==
    /\ last.ev = "WindowHide"
    /\ WasLive
    /\ ~panicked
    /\ ~vgrids[last.grid].visible
    /\ DOMAIN vgrids = last.lives

\* The event applied last names a grid that was not live.
MissingGrid(ev) == ev.grid \in GridIds /\ ev.grid \notin ev.lives

\* C8: a GridLine, Scroll, WindowHide or CursorGoto event naming a grid that
\* is not live leaves the model as it was and does not stop the applier.
C8_MissingGridSkipped ==
    [][(last'.ev \in {"GridLine", "Scroll", "WindowHide", "CursorGoto"}
            /\ MissingGrid(last'))
        => (UNCHANGED model /\ ~panicked')]_vars

\* C9: a WindowPosition event whose window number does not resolve is
\* dropped: grids, associations and focus stay and the applier goes on.
C9_WindowPositionQueryFailure ==
    [][(last'.ev = "WindowPosition" /\ ~last'.arg.number.ok)
        => (UNCHANGED <<vgrids, relationships, focused>> /\ ~panicked')]_vars

\* C10: a WindowViewport event one of whose queries fails (the window number,
\* or the rectangle asked for an absent grid) leaves grids, associations,
\* focus and dirty flags as they were and does not stop the applier.
C10_WindowViewportQueryFailure ==
    [][(last'.ev = "WindowViewport"
            /\ (~last'.arg.number.ok
                   \/ (MissingGrid(last') /\ ~last'.arg.rect.ok)))
        => (UNCHANGED <<vgrids, relationships, focused, flag_vars>> /\ ~panicked')]_vars

\* The rectangle query failed for an absent grid while another grid is live
\* and a dirty flag is raised.
C10_Witness ==
    /\ last.ev = "WindowViewport"
    /\ last.arg.number.ok
    /\ ~last.arg.rect.ok
    /\ ~WasLive
    /\ last.lives # {}
    /\ background_changed
    /\ ~panicked

\* C11: redraw events are applied one at a time in arrival order. Update is
\* entered with the events in the order the bridge sent them, and while a
\* WindowPosition or WindowViewport event waits for the reply to its query
\* nothing is applied but, at the end of the wait, that very event.
C11_OneAtATimeInOrder ==
    [][/\ Started' # Started => Started' = Started + 1
       /\ waiting # None =>
              \/ UNCHANGED <<model, panicked, last, waiting>>
              \/ waiting' = None /\ last'.seq = waiting[1].seq]_vars

\* A Resize has arrived and stays in the channel while a WindowPosition
\* waits for its reply.
C11_Witness ==
    /\ waiting # None
    /\ waiting[1].ev.kind = "WindowPosition"
    /\ queue # <<>>
    /\ Head(queue).ev.kind = "Resize"
    /\ ~panicked

\* C12: what a redraw event of a batch changed is not shown before the Flush
\* that ends the batch: no paint cycle redraws for a dirty flag that an event
\* raised after the last Flush.
C12_NothingShownBeforeFlush ==
    last.ev = "PaintCycle" => last.arg.redrawn \cap unflushed = {}

\* C13: a dirty flag is set exactly when an event set it since the last paint
\* cycle (any number of sets count once), and a paint cycle redraws for
\* exactly the flags set since the one before and leaves every flag clear.
C13_TestAndClear ==
    /\ Dirty = raised
    /\ last.ev = "PaintCycle" =>
           /\ last.arg.redrawn = last.arg.since
           /\ Dirty = {}

\* A paint cycle that came after two events or more has redrawn for the
\* cursor flag alone, and the flag is clear.
C13_Witness ==
    /\ last.ev = "PaintCycle"
    /\ last.seq >= 3
    /\ last.arg.redrawn = {"cursor_redraw"}
    /\ ~cursor_redraw

\* C14: the active mode index is validated against the length of the mode
\* table: a ModeInfoSet or ModeChange never reads the table outside its
\* bounds, so neither stops the applier.
C14_ModeIndexValidated ==
    last.ev \in {"ModeInfoSet", "ModeChange"} => ~panicked

\* The event applied last named a live grid and coordinates at which that
\* grid has no cell.
NoCellAt(ev) ==
    /\ ev.ev = "CursorGoto"
    /\ ev.pre # None
    /\ (ev.arg.row >= ev.pre[1].height \/ ev.arg.column >= ev.pre[1].width)

\* C15: CursorGoto on a live grid that has no cell at (row, column) leaves
\* the position and the shown cell of the cursor as they were and does not
\* stop the applier.
C15_CursorGotoNoCell ==
    [][NoCellAt(last') => (cursor' = cursor /\ ~panicked')]_vars

\* The cursor stands where an earlier CursorGoto put it, after a CursorGoto
\* that named no cell.
C15_Witness ==
    /\ NoCellAt(last)
    /\ cursor.pos # Pos(0, 0)
    /\ ~panicked

\* C16: CursorGoto on a live grid with coordinates that name no cell raises no
\* dirty flag: cursor_redraw keeps its value.
C16_CursorGotoNoCellNoFlag ==
    [][NoCellAt(last') => UNCHANGED flag_vars]_vars

\* The event applied last is a Scroll of a live grid that is not a scroll by
\* rows alone.
MalformedScroll(ev) ==
    /\ ev.ev = "Scroll"
    /\ ev.pre # None
    /\ ~(ev.arg.rows # 0 /\ ev.arg.columns = 0)

\* C17: a Scroll whose rows and columns are both non-zero or both zero, or
\* that has only columns non-zero, does not shift the rows of the grid.
C17_MalformedScrollNotApplied ==
    [][MalformedScroll(last') => UNCHANGED vgrids]_vars

\* A row of width default cells.
BlankRow(width) == [c \in 1..width |-> DefaultCell]

\* C18: a Scroll of a live grid with columns = 0 and rows > 0 moves the
\* content up by rows (row i becomes what was row i + rows, the last rows
\* rows become blank); with rows < 0 it moves the content down by -rows (the
\* first -rows rows become blank). Nothing else of the grid changes.
C18_ScrollByRows ==
    (last.ev = "Scroll" /\ last.pre # None
            /\ last.arg.columns = 0 /\ last.arg.rows # 0) =>
        LET old == last.pre[1]
            new == vgrids[last.grid]
            n == last.arg.rows
            R == Len(old.textbuf)
        IN  /\ ~panicked
            /\ [new EXCEPT !.textbuf = old.textbuf] = old
            /\ Len(new.textbuf) = R
            /\ \A i \in 1..R :
                   new.textbuf[i] = IF i + n \in 1..R THEN old.textbuf[i + n]
                                    ELSE BlankRow(old.width)

\* A scroll up by one row has moved a written second row to the top.
C18_Witness ==
    /\ last.ev = "Scroll"
    /\ last.pre # None
    /\ last.arg = [rows |-> 1, columns |-> 0]
    /\ Len(last.pre[1].textbuf) = 2
    /\ last.pre[1].textbuf[2] # BlankRow(last.pre[1].width)
    /\ vgrids[last.grid].textbuf[1] = last.pre[1].textbuf[2]

\* The event applied last scrolled down, by as many rows as the event before
\* it had scrolled the same grid up.
UpThenDown ==
    /\ last.ev = "Scroll"
    /\ last.pre # None
    /\ last.upped # None
    /\ last.arg.rows = -last.upped[1].n
    /\ last.upped[1].n <= Len(last.upped[1].buf)

\* C19: on a grid of R rows, a scroll up by n (0 < n <= R) followed by a
\* scroll down by n leaves R rows, rows n..R-1 as they were at first and rows
\* 0..n-1 blank.
C19_UpThenDown ==
    UpThenDown =>
        LET orig == last.upped[1].buf
            n == last.upped[1].n
            new == vgrids[last.grid].textbuf
        IN  /\ Len(new) = Len(orig)
            /\ \A i \in 1..Len(orig) :
                   new[i] = IF i > n THEN orig[i] ELSE BlankRow(Len(orig[i]))

\* Both rows were written; after up and down the second is back and the
\* first is lost.
C19_Witness ==
    /\ UpThenDown
    /\ Len(last.upped[1].buf) = 2
    /\ last.upped[1].buf[1] # BlankRow(Len(last.upped[1].buf[1]))
    /\ last.upped[1].buf[2] # BlankRow(Len(last.upped[1].buf[2]))
    /\ vgrids[last.grid].textbuf[2] = last.upped[1].buf[2]
    /\ vgrids[last.grid].textbuf[1] # last.upped[1].buf[1]

\* The event applied last is a WindowFloatPosition that met its grid and its
\* anchor grid live.
Floated ==
    /\ last.ev = "WindowFloatPosition"
    /\ last.pre # None
    /\ last.arg.anchor_grid \in last.lives

\* The device position the anchor grid had when the event was applied.
FloatBase ==
    IF last.arg.anchor_grid = last.grid THEN last.pre[1].pos
    ELSE vgrids[last.arg.anchor_grid].pos

\* C20: WindowFloatPosition puts the float grid at the position of the anchor
\* grid plus (c * cell width, r * cell height), where (c, r) is (col, row) for
\* NorthWest, (col - W, row) for NorthEast, (col, row - H) for SouthWest and
\* (col - W, row - H) for SouthEast, W and H the float grid's own size in
\* cells. An anchor at (100, 50), cells of 8 x 16 and a float of 10 x 3
\* anchored NorthEast at cell (20, 5) give (180, 130).
C20_FloatPosition ==
    /\ Floated =>
           LET W == last.pre[1].width
               H == last.pre[1].height
               c == IF last.arg.anchor \in {"NorthEast", "SouthEast"}
                    THEN last.arg.anchor_column - W ELSE last.arg.anchor_column
               r == IF last.arg.anchor \in {"SouthWest", "SouthEast"}
                    THEN last.arg.anchor_row - H ELSE last.arg.anchor_row
           IN  /\ ~panicked
               /\ vgrids[last.grid].pos =
                      Pos(FloatBase.x + c * MetricsWidth,
                          FloatBase.y + r * MetricsHeight)
    /\ (MetricsWidth = 8 /\ MetricsHeight = 16) =>
           FloatPos(Pos(100, 50), "NorthEast", 20, 5, 10, 3) = Pos(180, 130)

\* A float anchored NorthEast on another grid that stands away from the
\* origin.
C20_Witness ==
    /\ Floated
    /\ last.arg.anchor = "NorthEast"
    /\ last.arg.anchor_grid # last.grid
    /\ FloatBase # Pos(0, 0)
    /\ vgrids[last.grid].pos # FloatBase

\* Every grid but the one the event names, and every association but its
\* own, is as it was.
OthersUnchanged(grid) ==
    /\ DOMAIN vgrids' = DOMAIN vgrids
    /\ DOMAIN relationships' = DOMAIN relationships
    /\ \A g \in DOMAIN vgrids \ {grid} : vgrids'[g] = vgrids[g]
    /\ \A g \in DOMAIN relationships \ {grid} : relationships'[g] = relationships[g]

\* C21: WindowFloatPosition sets is_float of the float grid to true and its
\* focusable flag to the value of the event, and changes nothing else besides
\* the position of the float grid: its size, buffer, visibility and window
\* association, every other grid, and the rest of the model stay.
C21_FloatFrame ==
    [][(last'.ev = "WindowFloatPosition" /\ last'.pre # None
            /\ last'.arg.anchor_grid \in last'.lives) =>
        LET g == last'.grid
        IN  /\ ~panicked'
            /\ vgrids'[g] = [vgrids[g] EXCEPT !.pos = vgrids'[g].pos,
                                              !.move_to = vgrids'[g].move_to,
                                              !.is_float = TRUE,
                                              !.focusable = last'.arg.focusable]
            /\ OthersUnchanged(g)
            /\ relationships' = relationships
            /\ UNCHANGED <<focused, flag_vars, cursor_vars, hldefs>>]_vars

\* A hidden grid has been made a float that cannot be focused, and is still
\* hidden.
C21_Witness ==
    /\ Floated
    /\ ~last.pre[1].visible
    /\ ~last.pre[1].is_float
    /\ ~vgrids[last.grid].visible
    /\ vgrids[last.grid].is_float
    /\ ~vgrids[last.grid].focusable

\* C23 as stated: WindowHide on a live grid sets visible to false and changes
\* nothing else in the model, the focused grid id included.
C23_HideOnlyHides ==
    [][(last'.ev = "WindowHide" /\ last'.pre # None) =>
        /\ ~panicked'
        /\ vgrids'[last'.grid] = [vgrids[last'.grid] EXCEPT !.visible = FALSE]
        /\ OthersUnchanged(last'.grid)
        /\ UNCHANGED <<relationships, focused, flag_vars, cursor_vars, hldefs>>]_vars

\* C23 amended: WindowHide on a live grid sets visible to false and changes
\* nothing else in the model, except that the focused grid id becomes 1 when
\* it was the id of the hidden grid.
C23_HideHidesAndUnfocuses ==
    [][(last'.ev = "WindowHide" /\ last'.pre # None) =>
        /\ ~panicked'
        /\ vgrids'[last'.grid] = [vgrids[last'.grid] EXCEPT !.visible = FALSE]
        /\ OthersUnchanged(last'.grid)
        /\ focused' = IF focused = last'.grid THEN 1 ELSE focused
        /\ UNCHANGED <<relationships, flag_vars, cursor_vars, hldefs>>]_vars

\* A grid other than 1 that held the focus and had a written cell has been
\* hidden: the cell is still there and the focus is on 1.
C23_Witness ==
    /\ last.ev = "WindowHide"
    /\ last.pre # None
    /\ last.grid # 1
    /\ last.foc = last.grid
    /\ focused = 1
    /\ ~vgrids[last.grid].visible
    /\ HasWrittenCell(vgrids[last.grid])

\* C24: WindowViewport on a live grid whose window number resolves shows the
\* grid and sets its window association to the resolved id, and changes
\* nothing else: size, position, buffer and flags of the grid, the other
\* grids and the focused grid id stay.
C24_ViewportLiveFrame ==
    [][(last'.ev = "WindowViewport" /\ last'.pre # None /\ last'.arg.number.ok) =>
        LET g == last'.grid
        IN  /\ ~panicked'
            /\ vgrids'[g] = [vgrids[g] EXCEPT !.visible = TRUE]
            /\ relationships'[g] = last'.arg.number.val
            /\ OthersUnchanged(g)
            /\ UNCHANGED <<focused, flag_vars, cursor_vars, hldefs>>]_vars

\* A hidden grid without a window, not the focused one, has been shown and
\* given its window.
C24_Witness ==
    /\ last.ev = "WindowViewport"
    /\ last.pre # None
    /\ last.arg.number.ok
    /\ ~last.pre[1].visible
    /\ last.prewin = Some(0)
    /\ vgrids[last.grid].visible
    /\ relationships[last.grid] = last.arg.number.val
    /\ last.arg.number.val # 0
    /\ ~panicked

\* C22: set_pos records a pending move and moves nothing: a grid has a pending
\* move exactly when set_pos was called on it since the last render pass, the
\* pending move is the position of the latest set_pos, and a render pass
\* moves the widgets of exactly these grids, each once and to that position,
\* and leaves no pending move behind.
C22_PendingMove ==
    /\ \A g \in DOMAIN vgrids :
           /\ vgrids[g].move_to # None <=> g \in placed
           /\ vgrids[g].move_to \in {None, Some(vgrids[g].pos)}
    /\ last.ev = "RenderPass" =>
           /\ DOMAIN last.arg.moved = last.arg.since
           /\ \A g \in DOMAIN last.arg.moved : last.arg.moved[g] = vgrids[g].pos
           /\ \A g \in DOMAIN vgrids : vgrids[g].move_to = None

\* A render pass has moved the widget of a grid that was positioned twice,
\* to the later position.
C22_Witness ==
    /\ last.ev = "RenderPass"
    /\ last.seq >= 3
    /\ \E g \in DOMAIN last.arg.moved :
           /\ last.arg.moved[g] # Pos(0, 0)
           /\ vgrids[g].is_float

(* Rows: what the operations of Row return and leave behind. *)
RowOps ==
    {"Row::new", "Row::clear", "Row::resize", "Row::clear_range",
     "Row::copy_range", "Row::insert_at", "Row::replace", "Row::to_segments"}

\* The last operation was op and it returned.
RowDid(op) == last.ev = op /\ ~panicked

\* The cell an item stands for.
CellOf(item) ==
    [text |-> item.text, hl_id |-> item.highlight_id[1],
     double_width |-> item.double_width]

\* The sum of the repeats of the first k items, an absent repeat counting 1.
RECURSIVE SumRepeats(_, _)
SumRepeats(items, k) ==
    IF k = 0 THEN 0
    ELSE SumRepeats(items, k - 1)
         + (IF items[k].repeat = None THEN 1 ELSE items[k].repeat[1])

\* The first column of the run of same-style cells that column c lies in.
RunStart(cells, c) ==
    CHOOSE b \in 0..c :
        /\ \A j \in b..c : cells[j + 1].hl_id = cells[c + 1].hl_id
        /\ \A a \in 0..c :
               (\A j \in a..c : cells[j + 1].hl_id = cells[c + 1].hl_id) => b <= a

\* Column c lies in one of the segments.
Covered(segs, c) ==
    \E i \in DOMAIN segs : segs[i].start <= c /\ c < segs[i].start + segs[i].len

\* The texts of the cells, one after the other.
RECURSIVE Text(_)
Text(cells) == IF cells = <<>> THEN "" ELSE Head(cells).text \o Text(Tail(cells))

\* A row of narrow cells with the given texts and styles, built as the tests
\* build theirs: Row::new, then insert_at(0, ..).
RowOf(texts, styles) ==
    RowInsertAt(RowNew(Len(texts)), 0,
                [c \in 1..Len(texts) |->
                    [text |-> texts[c], hl_id |-> styles[c],
                     double_width |-> FALSE]]).val.row

Digits == RowOf(<<"0", "1", "2", "3", "4", "5", "6", "7", "8", "9">>,
                <<0, 0, 0, 0, 0, 0, 0, 0, 0, 0>>)

Item(text, hl, n) ==
    [text |-> text, highlight_id |-> Some(hl), repeat |-> Some(n),
     double_width |-> FALSE]

\* C25: a Row write at col_start fills, for item k, the repeat_k cells that
\* start at col_start plus the repeats of the items before it (an absent
\* repeat counts as 1) with the item's text, style and width flag, keeps
\* every other cell and keeps the length; "0123456789" written at column 3
\* with ("1" x3), ("2" x3) becomes "0121112229".
C25_RowWrite ==
    /\ RowDid("Row::replace") =>
          LET was == last.arg.was
              items == last.arg.in.cells
              col == last.arg.in.column_start
          IN /\ grid_row.len = was.len
             /\ Len(grid_row.cells) = Len(was.cells)
             /\ \A k \in 1..Len(items) :
                    \A c \in 0..(Len(was.cells) - 1) :
                        (/\ c >= col + SumRepeats(items, k - 1)
                         /\ c < col + SumRepeats(items, k))
                        => grid_row.cells[c + 1] = CellOf(items[k])
             /\ \A c \in 0..(Len(was.cells) - 1) :
                    (c < col \/ c >= col + SumRepeats(items, Len(items)))
                    => grid_row.cells[c + 1] = was.cells[c + 1]
    /\ LET out == RowReplace(Digits, [column_start |-> 3,
                                      cells |-> <<Item("1", 1, 3), Item("2", 1, 3)>>])
       IN out.done /\ Text(out.val.row.cells) = "0121112229"
                   /\ out.val.row.len = 10

\* A write of two items from column 1 on, over two cells or more, has
\* returned; the cell at column 0 was not a default cell.
C25_Witness ==
    /\ RowDid("Row::replace")
    /\ last.arg.in.column_start = 1
    /\ Len(last.arg.in.cells) = 2
    /\ SumRepeats(last.arg.in.cells, 2) >= 2
    /\ last.arg.was.cells[1] # DefaultCell
    /\ grid_row.cells[2].hl_id # grid_row.cells[3].hl_id

\* C26: the segments a Row write returns cover every written column, and when
\* col_start lay after the first column of its same-style run before the
\* write, the first segment starts at that run's first column; styles
\* [0,0,1,1,1] with one cell of style 2 written at column 4 returns
\* [{"==", 1, start 2, len 2}, {" ", 2, start 4, len 1}].
C26_WriteSegments ==
    /\ RowDid("Row::replace") =>
          LET was == last.arg.was
              items == last.arg.in.cells
              col == last.arg.in.column_start
              segs == last.arg.ret
          IN /\ \A c \in col..(col + SumRepeats(items, Len(items)) - 1) :
                    Covered(segs, c)
             /\ RunStart(was.cells, col) < col =>
                    /\ segs # <<>>
                    /\ segs[1].start = RunStart(was.cells, col)
    /\ LET out == RowReplace(RowOf(<<" ", " ", "=", "=", "=">>, <<0, 0, 1, 1, 1>>),
                             [column_start |-> 4, cells |-> <<Item(" ", 2, 1)>>])
       IN out.done /\ out.val.ret =
                         <<[text |-> "==", hl_id |-> 1, start |-> 2, len |-> 2],
                           [text |-> " ", hl_id |-> 2, start |-> 4, len |-> 1]>>

\* A write has changed the style in the middle of a run that started one
\* column earlier, after a cell of another style.
C26_Witness ==
    /\ RowDid("Row::replace")
    /\ last.arg.in.column_start = 2
    /\ RunStart(last.arg.was.cells, 2) = 1
    /\ grid_row.cells[3].hl_id # last.arg.was.cells[3].hl_id
    /\ last.arg.ret[1].start = 1

\* C27: to_segments(start, end) with start inside the row extends backward:
\* the first segment starts at the smallest column b <= start such that all
\* cells of [b, start] have the style of the cell at start.
C27_BackwardExtension ==
    /\ RowDid("Row::to_segments") =>
          LET b == RunStart(grid_row.cells, last.arg.in.cell_start)
              segs == last.arg.ret
          IN IF last.arg.in.end >= b
             THEN segs # <<>> /\ segs[1].start = b
             ELSE segs = <<>>
    /\ LET out == RowToSegments(
                      RowOf(<<"1", "1", "2", "2", "2", " ", "3", "3", "3", "3">>,
                            <<1, 1, 2, 2, 2, 2, 3, 3, 3, 3>>), 5, 10)
       IN out.done /\ out.val.ret =
                         <<[text |-> "222 ", hl_id |-> 2, start |-> 2, len |-> 4],
                           [text |-> "3333", hl_id |-> 3, start |-> 6, len |-> 4]>>

\* to_segments was asked from the last column of a run of two that follows a
\* cell of another style.
C27_Witness ==
    /\ RowDid("Row::to_segments")
    /\ last.arg.in.cell_start = 2
    /\ last.arg.in.end = 2
    /\ grid_row.cells[1].hl_id # grid_row.cells[2].hl_id
    /\ last.arg.ret = <<[text |-> grid_row.cells[2].text \o grid_row.cells[3].text,
                         hl_id |-> grid_row.cells[3].hl_id,
                         start |-> 1, len |-> 2]>>

\* C28: every segment returned by to_segments or by a Row write is a maximal
\* run: the cell before its start and the cell after its last column, when
\* they exist, have another style.
C28_MaximalRuns ==
    (RowDid("Row::to_segments") \/ RowDid("Row::replace")) =>
        \A i \in DOMAIN last.arg.ret :
            LET seg == last.arg.ret[i]
                cells == grid_row.cells
            IN /\ seg.start > 0 => cells[seg.start].hl_id # seg.hl_id
               /\ seg.start + seg.len < Len(cells) =>
                      cells[seg.start + seg.len + 1].hl_id # seg.hl_id

\* C29: resize(new_len) sets len to new_len, keeps the cells below
\* min(old_len, new_len) and fills the columns from old_len on with default
\* cells; so a row that was shrunk and is grown again does not get back the
\* cells that were cut: "0123456789" resized to 5 then to 15 is "01234" and
\* ten spaces.
C29_Resize ==
    /\ RowDid("Row::resize") =>
          LET was == last.arg.was
              n == last.arg.in.new_size
          IN /\ grid_row.len = n
             /\ Len(grid_row.cells) = n
             /\ \A c \in 1..n :
                    grid_row.cells[c] = IF c <= was.len THEN was.cells[c]
                                        ELSE DefaultCell
    /\ LET out == RowResize(RowResize(Digits, 5).val.row, 15).val.row
       IN out.len = 15 /\ Text(out.cells) = "01234          "

\* A row was shrunk, which cut a cell that was not a default cell, and then
\* grown over that column again.
C29_Witness ==
    /\ RowDid("Row::resize")
    /\ last.arg.prior # None
    /\ last.arg.was.len < last.arg.prior[1].len
    /\ last.arg.was.len < grid_row.len
    /\ last.arg.prior[1].cells[last.arg.was.len + 1] # DefaultCell
    /\ grid_row.cells[last.arg.was.len + 1] = DefaultCell

\* C30: after every Row operation the row holds len cells, and no operation
\* but resize (and new, which makes the row) changes len.
C30_LenField ==
    /\ Len(grid_row.cells) = grid_row.len
    /\ last.ev \in RowOps \ {"Row::new", "Row::resize"} =>
           grid_row.len = last.arg.was.len

\* insert_at, the second operation on a row of MaxRowLen cells, has replaced
\* two of them.
C30_Witness ==
    /\ RowDid("Row::insert_at")
    /\ Len(last.arg.in.cells) = 2
    /\ grid_row.len = MaxRowLen
    /\ grid_row # last.arg.was
    /\ last.seq = 2

\* C31: clear_range(a, b) with a <= b <= len returns, resets exactly the
\* cells of columns a..b-1 to the default cell (one space, style 0, narrow)
\* and keeps the other cells and len; clear resets every cell and keeps len.
C31_Clear ==
    /\ (/\ last.ev = "Row::clear_range"
        /\ last.arg.in.from <= last.arg.in.to
        /\ last.arg.in.to <= last.arg.was.len) =>
          LET was == last.arg.was
          IN /\ ~panicked
             /\ grid_row.len = was.len
             /\ Len(grid_row.cells) = Len(was.cells)
             /\ \A c \in 0..(was.len - 1) :
                    grid_row.cells[c + 1] =
                        IF last.arg.in.from <= c /\ c < last.arg.in.to
                        THEN [text |-> " ", hl_id |-> 0, double_width |-> FALSE]
                        ELSE was.cells[c + 1]
    /\ RowDid("Row::clear") =>
          /\ grid_row.len = last.arg.was.len
          /\ Len(grid_row.cells) = last.arg.was.len
          /\ \A c \in 1..grid_row.len :
                 grid_row.cells[c] = [text |-> " ", hl_id |-> 0, double_width |-> FALSE]
    /\ LET out == RowClearRange(Digits, 2, 5)
       IN out.done /\ Text(out.val.row.cells) = "01   56789" /\ out.val.row.len = 10

\* clear_range(1, 2) has reset the middle cell of a row of three cells none
\* of which was a default cell.
C31_Witness ==
    /\ RowDid("Row::clear_range")
    /\ last.arg.in.from = 1
    /\ last.arg.in.to = 2
    /\ last.arg.was.len = 3
    /\ \A c \in 1..3 : last.arg.was.cells[c] # DefaultCell
    /\ grid_row.cells[2] = DefaultCell
    /\ grid_row.cells[3] # DefaultCell

\* C34: the segments of to_segments(start, end) follow each other without a
\* gap, neighbours have different styles, each segment's text is the text of
\* its cells in column order, and together they cover the columns from the
\* backward-extended start through min(end, len - 1), the cell at column end
\* included when there is one.
C34_SegmentsContiguous ==
    /\ RowDid("Row::to_segments") =>
          LET cells == grid_row.cells
              segs == last.arg.ret
              b == RunStart(cells, last.arg.in.cell_start)
              e == IF last.arg.in.end < Len(cells) - 1
                   THEN last.arg.in.end ELSE Len(cells) - 1
          IN /\ \A i \in DOMAIN segs :
                    /\ segs[i].len >= 1
                    /\ segs[i].text =
                           Text(SubSeq(cells, segs[i].start + 1,
                                       segs[i].start + segs[i].len))
                    /\ \A c \in segs[i].start..(segs[i].start + segs[i].len - 1) :
                           cells[c + 1].hl_id = segs[i].hl_id
                    /\ i > 1 => /\ segs[i].start = segs[i - 1].start + segs[i - 1].len
                                /\ segs[i].hl_id # segs[i - 1].hl_id
             /\ IF e >= b
                THEN /\ segs # <<>>
                     /\ segs[1].start = b
                     /\ segs[Len(segs)].start + segs[Len(segs)].len - 1 = e
                ELSE segs = <<>>
    /\ LET out == RowToSegments(RowOf(<<"1", "1", "2", "3">>, <<1, 1, 2, 3>>), 0, 4)
       IN out.done /\ out.val.ret =
                         <<[text |-> "11", hl_id |-> 1, start |-> 0, len |-> 2],
                           [text |-> "2", hl_id |-> 2, start |-> 2, len |-> 1],
                           [text |-> "3", hl_id |-> 3, start |-> 3, len |-> 1]>>

\* to_segments(0, 1) on a row of three cells has returned two segments, the
\* second being the cell at column 1.
C34_Witness ==
    /\ RowDid("Row::to_segments")
    /\ last.arg.in.cell_start = 0
    /\ last.arg.in.end = 1
    /\ grid_row.len = 3
    /\ Len(last.arg.ret) = 2
    /\ last.arg.ret[2].start = 1

\* C32: background_changed goes from false to true on DefaultColorsSet only,
\* which always sets it and replaces the default style; a
\* HighlightAttributesDefine{id, style} sets the entry of id in the highlight
\* table, keeps the other entries and the default style, and changes no
\* flag and nothing else.
C32_BackgroundFlag ==
    [][/\ (~background_changed /\ background_changed') =>
              last'.ev = "DefaultColorsSet"
       /\ last'.ev = "DefaultColorsSet" =>
              /\ background_changed'
              /\ hldefs' = [hldefs EXCEPT !.defaults = Some(last'.arg.colors)]
       /\ last'.ev = "HighlightAttributesDefine" =>
              /\ ~panicked'
              /\ DOMAIN hldefs'.defs = DOMAIN hldefs.defs \cup {last'.arg.id}
              /\ hldefs'.defs[last'.arg.id] = last'.arg.style
              /\ \A j \in DOMAIN hldefs.defs \ {last'.arg.id} :
                     hldefs'.defs[j] = hldefs.defs[j]
              /\ hldefs'.defaults = hldefs.defaults
              /\ UNCHANGED <<grid_vars, focused, flag_vars, cursor_vars>>]_vars

\* The third event defines a highlight; the one entry of the table was
\* defined by the event before, and the default colours were set, which
\* raised the only flag that is up.
C32_Witness ==
    /\ last.ev = "HighlightAttributesDefine"
    /\ last.seq = 3
    /\ Cardinality(DOMAIN hldefs.defs) = 1
    /\ hldefs.defaults # None
    /\ Dirty = {"background_changed"}

\* C33: an event of a variant the dispatcher only logs (BusyStart, BusyStop,
\* the logged Message* variants, the catch-all arm) leaves the grids, the
\* associations, the highlights, the cursor, the focus and the flags as they
\* were and does not fail.
C33_IgnoredFrame ==
    [][last'.ev = "Ignored" => UNCHANGED <<model, panicked>>]_vars

\* An ignored event has come after a grid was made and a flag raised.
C33_Witness ==
    /\ last.ev = "Ignored"
    /\ last.arg.variant = "Unhandled"
    /\ ~panicked
    /\ DOMAIN vgrids # {}
    /\ Dirty # {}

\* C35: CursorGoto{grid, row, col} on a live grid that has a cell at
\* (row, col) puts the cursor at (grid.x + col * cell width,
\* grid.y + row * cell height), stores that cell as the shown cell and raises
\* cursor_redraw; no other event, a write to that cell included, changes the
\* position or the shown cell.
C35_CursorGotoCell ==
    [][/\ (/\ last'.ev = "CursorGoto"
           /\ last'.pre # None
           /\ last'.arg.row < last'.pre[1].height
           /\ last'.arg.column < last'.pre[1].width) =>
              LET vgrid == vgrids[last'.grid]
              IN /\ ~panicked'
                 /\ cursor'.pos = Pos(vgrid.pos.x + last'.arg.column * MetricsWidth,
                                      vgrid.pos.y + last'.arg.row * MetricsHeight)
                 /\ cursor'.cell =
                        vgrid.textbuf[last'.arg.row + 1][last'.arg.column + 1]
                 /\ cursor_redraw'
       /\ last'.ev # "CursorGoto" =>
              (cursor'.pos = cursor.pos /\ cursor'.cell = cursor.cell)]_vars

\* A GridLine has written the cell the cursor was sent to by the event
\* before; the shown cell is still the cell as it was.
C35_Witness ==
    /\ last.ev = "GridLine"
    /\ last.seq = 3
    /\ ~panicked
    /\ cursor.pos # Pos(0, 0)
    /\ cursor.cell = DefaultCell
    /\ vgrids[last.grid].pos = Pos(0, 0)
    /\ TextBufCell(vgrids[last.grid].textbuf,
                   cursor.pos.y \div MetricsHeight,
                   cursor.pos.x \div MetricsWidth) \notin {None, Some(DefaultCell)}

\* The redraw events that name a grid.
NamedEvents ==
    {"GridLine", "Scroll", "Clear", "Resize", "WindowPosition", "WindowViewport",
     "WindowHide", "WindowClose", "Destroy", "WindowFloatPosition"}

\* C36: an event that names a grid leaves every other live grid live, with
\* the buffer, size, position, flags and window association it had; so a
\* float grid stays where its last WindowFloatPosition put it when its anchor
\* grid is moved or resized.
C36_OtherGridsKept ==
    [][last'.ev \in NamedEvents =>
          \A h \in DOMAIN vgrids \ {last'.grid} :
              /\ h \in DOMAIN vgrids'
              /\ vgrids'[h] = vgrids[h]
              /\ (h \in DOMAIN relationships') = (h \in DOMAIN relationships)
              /\ h \in DOMAIN relationships => relationships'[h] = relationships[h]]_vars

\* The fourth event, a WindowPosition, has moved a live grid; the other grid
\* is a float that a WindowFloatPosition had put next to it, away from the
\* origin.
C36_Witness ==
    /\ last.ev = "WindowPosition"
    /\ last.seq = 4
    /\ ~panicked
    /\ last.pre # None
    /\ vgrids[last.grid].pos # last.pre[1].pos
    /\ ~vgrids[last.grid].is_float
    /\ \E h \in DOMAIN vgrids \ {last.grid} :
           vgrids[h].is_float /\ vgrids[h].pos # Pos(0, 0)

\* C37: for every live grid, the window id the grid object holds (win, set
\* when it is made) is the window id of the grid's association record.
C37_WinMatchesRelation ==
    \A g \in DOMAIN vgrids :
        /\ g \in DOMAIN relationships
        /\ vgrids[g].win = relationships[g]

\* A WindowFloatPosition that has just been applied to live grids is applied
\* a second time, unchanged.
FloatAgain ==
    /\ last.ev = "WindowFloatPosition"
    /\ last.pre # None
    /\ last.arg.anchor_grid \in last.lives
    /\ last'.ev = "WindowFloatPosition"
    /\ last'.again

\* The position and the flags of a grid.
Placing(vgrid) ==
    [pos |-> vgrid.pos, is_float |-> vgrid.is_float,
     focusable |-> vgrid.focusable, visible |-> vgrid.visible]

\* C38 as stated: the same WindowFloatPosition applied twice in succession
\* leaves the float grid with the position and flags it had after the first,
\* whatever the anchor grid, the float grid itself included.
C38_FloatIdempotent ==
    [][FloatAgain =>
          Placing(vgrids'[last'.grid]) = Placing(vgrids[last'.grid])]_vars

\* C38, amended: the second application changes nothing when the anchor grid
\* is another grid; when the float grid is its own anchor, it keeps the flags
\* and moves the grid once more by the cell offset of the event, from where
\* the first application left it.
C38_FloatIdempotentOtherAnchor ==
    [][FloatAgain =>
          LET g == last'.grid
              a == last'.arg
          IN /\ ~panicked'
             /\ a.anchor_grid # g => vgrids'[g] = vgrids[g]
             /\ a.anchor_grid = g =>
                    Placing(vgrids'[g]) =
                        [Placing(vgrids[g]) EXCEPT
                            !.pos = FloatPos(vgrids[g].pos, a.anchor, a.anchor_column,
                                             a.anchor_row, vgrids[g].width,
                                             vgrids[g].height)]]_vars

\* The fourth event repeats the third, a WindowFloatPosition that put a grid
\* next to the other grid, away from the origin.
C38_Witness ==
    /\ last.ev = "WindowFloatPosition"
    /\ last.again
    /\ last.seq = 4
    /\ ~panicked
    /\ last.arg.anchor_grid # last.grid
    /\ vgrids[last.grid].pos # Pos(0, 0)
    /\ vgrids[last.grid].pos # vgrids[last.arg.anchor_grid].pos
    /\ last.pre[1].pos = vgrids[last.grid].pos


FocusSetters == {"Resize", "WindowPosition"}

FocusResetters == {"WindowHide", "WindowClose", "Destroy"}

\* C39: the focused grid id changes only in Resize and WindowPosition, which
\* set it to the event's grid id when the handler returns, whether the grid
\* is created or already live, and in WindowHide, WindowClose and Destroy,
\* which reset it to 1 exactly when it equals the event's grid id; every
\* other event, a grid-creating WindowViewport included, leaves it as it was.
\* Hence after WindowClose{g} or Destroy{g} with g # 1 the focused id is
\* not g.
C39_FocusFrame ==
    [][LET ev == last'.ev
           g == last'.grid
       IN  /\ (ev \in FocusSetters /\ ~panicked') => focused' = g
           /\ ev \in FocusResetters =>
                  focused' = (IF focused = g THEN 1 ELSE focused)
           /\ ev \notin FocusSetters \cup FocusResetters => focused' = focused
           /\ (ev \in {"WindowClose", "Destroy"} /\ g # 1) => focused' # g]_vars

C39_Witness ==
    /\ last.ev = "Destroy"
    /\ last.grid # 1
    /\ last.foc = last.grid
    /\ last.pre # None
    /\ focused = 1
    /\ ~panicked

====
